---------------------------- MODULE Spec2Model ----------------------------
(***************************************************************************)
(* A model of inno-updater (src/src/main.rs and the modules it uses): the  *)
(* three-way rename protocol, the update orchestrator with its two         *)
(* strategies, and the bulk deletion through delete-pending file handles.  *)
(*                                                                         *)
(* The file system is a function from paths to contents.  A path is a      *)
(* record [dir, prefix, base]: the directory it lies in, the "old_" / "new_"  *)
(* prefix of its file name (or none) and the rest of the name, so that     *)
(* format!("old_{}", name) and starts_with("old_") are computed and not    *)
(* assumed.  Every OS call that can fail takes its outcome as an input,    *)
(* which the actions draw with \E.                                         *)
(***************************************************************************)
EXTENDS Naturals, Integers, Sequences, FiniteSets, TLC

VARIABLES
    fs,        \* the install directory: path -> contents, or Absent
    pre,       \* fs as it was when the operation under study was called
    pc,        \* position of the running operation
    result,    \* what the operation returned: "none" until it returns
    calls,     \* the fs::rename calls made by the last perform_three_way_rename
    dirs,      \* the directories that exist under the install root
    commit,    \* update's `commit` argument: "none" or the commit's name
    bin_files, \* update: the collected bin file names not yet processed
    renamed_files, \* update: the bin files renamed successfully
    staged,    \* move_update: the staging entries not yet promoted
    steps,     \* the steps update has started, in order
    log,       \* the lines written to the log
    dkind,     \* which bulk deletion is running, or "none"
    todo,      \* bulk deletion: the files the scan has yet to open
    handles,   \* bulk deletion: the collected FileHandles, in order
    rmdirs,    \* bulk deletion: the directories yet to remove
    dres,      \* what the bulk deletion returned: "none" until it returns
    task,      \* util::retry: the `task` of the running call, "none" if none
    max_arg,   \* util::retry: the `max_attempts` argument, an Option<u32>
    attempt,   \* util::retry: the attempt counter
    invoked,   \* util::retry: the invocations of the closure so far
    sleeps,    \* util::retry: the thread::sleep calls so far
    answers,   \* util::retry: the answers to the retry/cancel prompt so far
    rres,      \* util::retry: what it returned: "none" until it returns
    target,    \* wait_or_kill: the `path` argument
    procs,     \* wait_or_kill: the processes of the snapshot, by pid
    alive,     \* wait_or_kill: the pids whose process has not exited
    checks,    \* wait_or_kill: the liveness checks made (`attempt`)
    naps,      \* wait_or_kill: the 500 ms sleeps of the wait loop
    still_running, \* wait_or_kill: the pids found running by the last check
    kill_outcomes, \* wait_or_kill: what kill_process_if did, by pid, in
                   \* the last pass of the escalation
    terminated,    \* wait_or_kill: the pids TerminateProcess was called on
    wres,      \* wait_or_kill: what it returned: "none" until it returns
    value,     \* uninstall log: the header, record or string list in memory
    bytes,     \* uninstall log: the byte stream written or to be read
    fault,     \* uninstall log: what was done to the stream before reading
    decoded,   \* uninstall log: what reading returned
    bw,        \* blockio: the BlockWrite and how much was written through it
    br         \* blockio: the BlockRead

renVars == <<fs, pre, pc, result, calls>>
updVars == <<commit, bin_files, renamed_files, staged, steps, log>>
delVars == <<dkind, todo, handles, rmdirs, dres>>
retVars == <<task, max_arg, attempt, invoked, sleeps, answers, rres>>
procVars == <<target, procs, alive, checks, naps, still_running,
              kill_outcomes, terminated, wres>>
codecVars == <<value, bytes, fault, decoded, bw, br>>
auxVars == <<retVars, procVars, codecVars>>
installVars == <<fs, pre, result, calls, dirs, updVars, delVars>>
vars == <<renVars, dirs, updVars, delVars, auxVars>>

\* Option<u32>
None == [some |-> FALSE, n |-> 0]
Some(n) == [some |-> TRUE, n |-> n]

\* No util::retry call and no wait_or_kill call is under study.
RetryIdle ==
    /\ task = "none"
    /\ max_arg = None
    /\ attempt = 0
    /\ invoked = <<>>
    /\ sleeps = <<>>
    /\ answers = <<>>
    /\ rres = "none"

ProcIdle ==
    /\ target = "none"
    /\ procs = <<>>
    /\ alive = {}
    /\ checks = 0
    /\ naps = 0
    /\ still_running = {}
    /\ kill_outcomes = <<>>
    /\ terminated = {}
    /\ wres = "none"

\* Nothing of the uninstall log is under study.
NoValue == [kind |-> "none"]
NoFault == [kind |-> "none"]
NotDecoded == [res |-> "none"]

\* No BlockWrite and no BlockRead is under study.
BlockIdle ==
    /\ bw = [kind |-> "none"]
    /\ br = [kind |-> "none"]

CodecIdle ==
    /\ value = NoValue
    /\ bytes = <<>>
    /\ fault = NoFault
    /\ decoded = NotDecoded
    /\ BlockIdle

-----------------------------------------------------------------------------
(* Paths and contents *)

Absent == "absent"

\* Contents are opaque to the updater: it never reads a byte of a file.
Contents == {"cur", "new", "stale"}

Path(d, p, b) == [dir |-> d, prefix |-> p, base |-> b]

\* dir.join(format!("old_{}", name)) and dir.join(format!("new_{}", name))
old_(p) == [p EXCEPT !.prefix = "old_"]
new_(p) == [p EXCEPT !.prefix = "new_"]

\* The file of the unit tests of perform_three_way_rename
TestCurrent == Path("root", "", "current.txt")

RenamePaths == {TestCurrent, old_(TestCurrent), new_(TestCurrent)}

-----------------------------------------------------------------------------
(* std::fs::rename and Path::exists as main.rs uses them *)

exists(f, p) == f[p] # Absent

\* Whether the rename from `from` is granted: `ok` is the OS's answer for a
\* source that exists; a missing source always fails.
renameOk(f, from, ok) == ok /\ exists(f, from)

rename_keepsSource(f, from, to, ok) ==
    IF renameOk(f, from, ok) THEN [f EXCEPT ![to] = f[from]] ELSE f

\* fs::rename(from, to): on success `to` holds the bytes of `from`,
\* replacing what was there, and `from` is gone; on failure nothing changes.
rename(f, from, to, ok) ==
    IF renameOk(f, from, ok)
    THEN [f EXCEPT ![to] = f[from], ![from] = Absent]
    ELSE f

-----------------------------------------------------------------------------
(* perform_three_way_rename *)

Call(from, to, ok) == [from |-> from, to |-> to, ok |-> ok]

Step1Needed_always(f, c, n) == exists(f, n)

\* main.rs:649: step 1 runs when the new and the current file both exist
Step1Needed(f, c, n) == exists(f, n) /\ exists(f, c)

Step1Aborts_never(needed, granted) == FALSE

\* main.rs:651-657: a failed rename current -> old returns the error at once
Step1Aborts(needed, granted) == needed /\ ~granted

RollbackNeeded_never(f, o) == FALSE

\* main.rs:669: the rollback is attempted when the old file exists
RollbackNeeded(f, o) == exists(f, o)

\* The whole function: ok1, ok2, ok3 are the OS's answers to the renames
\* current -> old, new -> current and old -> current. Returns the file
\* system afterwards, the result and the rename calls made, in order.
perform_three_way_rename(f, c, o, n, ok1, ok2, ok3) ==
    LET needed == Step1Needed(f, c, n)
        g1     == renameOk(f, c, ok1)
        f1     == IF needed THEN rename(f, c, o, ok1) ELSE f
        ops1   == IF needed THEN <<Call(c, o, g1)>> ELSE <<>>
    IN  IF Step1Aborts(needed, g1)
        THEN [fs |-> f1, res |-> "ErrCurrentToOld", ops |-> ops1]
        ELSE IF ~needed /\ ~exists(f, n)
        THEN [fs |-> f, res |-> "Ok", ops |-> <<>>]
        ELSE LET g2   == renameOk(f1, n, ok2)
                 f2   == rename(f1, n, c, ok2)
                 ops2 == Append(ops1, Call(n, c, g2))
             IN  IF g2
                 THEN [fs |-> f2, res |-> "Ok", ops |-> ops2]
                 ELSE IF RollbackNeeded(f2, o)
                 THEN [fs  |-> rename(f2, o, c, ok3),
                       res |-> "ErrNewToCurrent",
                       ops |-> Append(ops2, Call(o, c, renameOk(f2, o, ok3)))]
                 ELSE [fs |-> f2, res |-> "ErrNewToCurrent", ops |-> ops2]

-----------------------------------------------------------------------------
(* SpecRename: one call of perform_three_way_rename(C, O, N) on any        *)
(* combination of the three files and any pattern of rename failures.      *)

RC == TestCurrent
RO == old_(TestCurrent)
RN == new_(TestCurrent)

InitRename ==
    /\ fs \in [RenamePaths -> Contents \cup {Absent}]
    /\ pre = fs
    /\ pc = "call"
    /\ result = "none"
    /\ calls = <<>>
    /\ dirs = {}
    /\ commit = "none"
    /\ bin_files = <<>>
    /\ renamed_files = <<>>
    /\ staged = <<>>
    /\ steps = <<>>
    /\ log = {}
    /\ dkind = "none"
    /\ todo = <<>>
    /\ handles = <<>>
    /\ rmdirs = <<>>
    /\ dres = "none"
    /\ RetryIdle /\ ProcIdle /\ CodecIdle

CallThreeWayRename ==
    /\ pc = "call"
    /\ \E ok1, ok2, ok3 \in BOOLEAN :
         LET r == perform_three_way_rename(fs, RC, RO, RN, ok1, ok2, ok3)
         IN  /\ fs' = r.fs
             /\ result' = r.res
             /\ calls' = r.ops
    /\ pc' = "returned"
    /\ UNCHANGED <<pre, dirs, updVars, delVars>>
    /\ UNCHANGED auxVars

NextRename == CallThreeWayRename

SpecRename == InitRename /\ [][NextRename]_vars

\* No rename the call attempted was refused.
NoRenameFailed == \A i \in DOMAIN calls : calls[i].ok

\* The call attempted the rename from -> to, with the outcome `ok`.
Attempted(from, to, ok) == \E i \in DOMAIN calls : calls[i] = Call(from, to, ok)

\* C1: when no rename fails, perform_three_way_rename(C, O, N) returns
\* success and: with C and N both there, C ends with N's original bytes, O
\* with C's original bytes and N is gone; with C absent and N there, C ends
\* with N's bytes, N is gone and O is left as it was (so it is not created);
\* with N absent, no file is created, removed or changed.
C1_ThreeWayRenameSuccess ==
    (pc = "returned" /\ NoRenameFailed) =>
        /\ result = "Ok"
        /\ (exists(pre, RC) /\ exists(pre, RN)) =>
               /\ fs[RC] = pre[RN]
               /\ fs[RO] = pre[RC]
               /\ fs[RN] = Absent
        /\ (~exists(pre, RC) /\ exists(pre, RN)) =>
               /\ fs[RC] = pre[RN]
               /\ fs[RN] = Absent
               /\ fs[RO] = pre[RO]
        /\ ~exists(pre, RN) => fs = pre /\ calls = <<>>

\* C1's case: both files were there, a leftover old file too, and both
\* renames were made and granted.
C1_Witness ==
    /\ pc = "returned"
    /\ exists(pre, RC) /\ exists(pre, RN) /\ exists(pre, RO)
    /\ pre[RO] # pre[RC]
    /\ calls = <<Call(RC, RO, TRUE), Call(RN, RC, TRUE)>>
    /\ fs[RO] = pre[RC]

\* C2: when C and N both exist and the rename C -> O fails, the call
\* returns an error with no progress made: C -> O is the only rename
\* attempted (N -> C never is) and C, N and O are as they were.
C2_Step1FailureNoProgress ==
    (pc = "returned" /\ exists(pre, RC) /\ exists(pre, RN)
       /\ Attempted(RC, RO, FALSE)) =>
        /\ result = "ErrCurrentToOld"
        /\ calls = <<Call(RC, RO, FALSE)>>
        /\ fs = pre

\* C2's case: the rename C -> O was attempted and refused.
C2_Witness ==
    /\ pc = "returned"
    /\ exists(pre, RC) /\ exists(pre, RN)
    /\ Attempted(RC, RO, FALSE)

\* C3 (as claimed): when the rename N -> C fails the call returns the
\* N -> C error; the rollback O -> C is attempted exactly when O exists at
\* that moment (it was there before the call or step 1 has just made it);
\* and after a successful rollback C holds the bytes it held before the
\* call and N still exists.
C3_RollbackRestoresCurrent ==
    (pc = "returned" /\ Attempted(RN, RC, FALSE)) =>
        /\ result = "ErrNewToCurrent"
        /\ (\E ok \in BOOLEAN : Attempted(RO, RC, ok))
              <=> (exists(pre, RO) \/ Attempted(RC, RO, TRUE))
        /\ Attempted(RO, RC, TRUE) =>
               /\ fs[RC] = pre[RC]
               /\ exists(fs, RN)

\* The part of C3 the code keeps: the error returned and when the rollback
\* is attempted.
C3_ErrorAndRollbackAttempt ==
    (pc = "returned" /\ Attempted(RN, RC, FALSE)) =>
        /\ result = "ErrNewToCurrent"
        /\ (\E ok \in BOOLEAN : Attempted(RO, RC, ok))
              <=> (exists(pre, RO) \/ Attempted(RC, RO, TRUE))
        /\ exists(fs, RN)


-----------------------------------------------------------------------------
(* The install directory *)

\* How many files the bin folder can hold beside their old_ / new_ twins.
MaxBin == 2

BinPool == <<"code.cmd", "code-tunnel.exe", "code", "code-server.cmd">>

BinNames == {BinPool[i] : i \in 1..MaxBin}

\* main.rs:594: update(log, &code_path, "_", ...)
UpdateFolder == "_"

\* The commit whose folder the garbage collection preserves.
CommitName == "abc123"

Exe == Path("root", "", "code.exe")

\* main.rs:485-487: basename without ".exe" + ".VisualElementsManifest.xml"
ManifestOf(code_path) ==
    Path(code_path.dir, "",
         CASE code_path.base = "code.exe" -> "code.VisualElementsManifest.xml"
           [] OTHER -> "VisualElementsManifest.xml")

Manifest == ManifestOf(Exe)
Ffmpeg == Path("root", "", "ffmpeg.dll")
LibDll == Path("root", "", "LIBRARY.DLL")
Readme == Path("root", "", "readme.txt")
Unins == Path("root", "unins", "000.dat")
BinFile(b) == Path("bin", "", b)
ResFile == Path("res", "", "app.asar")
CommitFile == Path(CommitName, "", "main.js")
ToolsFile == Path("tools", "", "inno_updater.exe")
StagedExe == Path(UpdateFolder, "", "code.exe")
StagedRes == Path(UpdateFolder, "", "resources.pak")
\* a file named unins000.dat below the root level
DeepUnins == Path("res", "unins", "000.dat")
\* a plain file that has the update folder's name
UpdateFolderFile == Path("root", "", UpdateFolder)
\* a DLL below the root level, and a file of the bootstrap folder
ResDll == Path("res", "", "ffmpeg.dll")
BootstrapFile == Path("bootstrap", "", "readme.txt")

BinPaths == UNION {{BinFile(b), old_(BinFile(b)), new_(BinFile(b))} : b \in BinNames}

InstallPaths ==
    {Exe, old_(Exe), new_(Exe), Manifest, old_(Manifest), new_(Manifest),
     Ffmpeg, LibDll, Readme, Unins, Path("root", "", "resources.pak"),
     ResFile, DeepUnins, ResDll, BootstrapFile, CommitFile, ToolsFile,
     StagedExe, StagedRes, UpdateFolderFile}
      \cup BinPaths

TopDirs == {"bin", UpdateFolder, "res", "tools", "bootstrap", CommitName}

\* The order in which fs::read_dir yields the entries: the root's files,
\* then the directories one after the other (the work-list of
\* delete_existing_version reads the root before any subdirectory).
DirOrder == <<UpdateFolder, CommitName, "bin", "bootstrap", "res", "tools">>

BinOrder ==
    [k \in 1..(3 * MaxBin) |->
        LET b == BinFile(BinPool[((k - 1) \div 3) + 1])
        IN  CASE (k - 1) % 3 = 0 -> b
              [] (k - 1) % 3 = 1 -> old_(b)
              [] OTHER -> new_(b)]

ScanOrder ==
    <<Exe, old_(Exe), new_(Exe), Manifest, old_(Manifest), new_(Manifest),
      Ffmpeg, LibDll, Readme, Path("root", "", "resources.pak"), Unins,
      UpdateFolderFile, StagedExe, StagedRes, CommitFile>>
    \o BinOrder \o <<BootstrapFile, ResFile, DeepUnins, ResDll, ToolsFile>>

InOrder(order, set) == SelectSeq(order, LAMBDA x : x \in set)

\* Path::extension of the file name
extension(p) ==
    CASE p.base \in {"code.exe", "code-tunnel.exe", "inno_updater.exe"} -> "exe"
      [] p.base = "ffmpeg.dll" -> "dll"
      [] p.base = "LIBRARY.DLL" -> "DLL"
      [] p.base \in {"code.cmd", "code-server.cmd"} -> "cmd"
      [] p.base = "code.VisualElementsManifest.xml" -> "xml"
      [] p.base = "readme.txt" -> "txt"
      [] p.base = "resources.pak" -> "pak"
      [] p.base = "app.asar" -> "asar"
      [] p.base = "main.js" -> "js"
      [] p.base = "000.dat" -> "dat"
      [] OTHER -> ""

eq_case_sensitive(e, s) == e = s

\* OsStr::eq_ignore_ascii_case: main.rs:716 compares with "dll"
eq_ignore_ascii_case(e, s) == s = "dll" /\ e \in {"dll", "DLL", "Dll", "dLL"}

\* The file's name is exactly `s` (a name without old_ / new_ / unins in front)
IsNamed(p, s) == p.prefix = "" /\ p.base = s

\* entry_name.starts_with("unins")
starts_with_unins(p) == p.prefix = "unins"

\* fs::read_dir(dir): the files of a directory
Files(f, d) == {p \in DOMAIN f : p.dir = d /\ exists(f, p)}

\* fs::remove_dir_all(dir): the directory's files go with it
remove_dir_all(f, d) == [p \in DOMAIN f |-> IF p.dir = d THEN Absent ELSE f[p]]

-----------------------------------------------------------------------------
(* Bulk deletion: delete_existing_version, remove_files, cleanup_dll_files *)

DeleteKinds == {"delete_existing_version", "remove_files", "cleanup_dll_files"}

\* main.rs:115-140: the root-level names delete_existing_version passes over
LegacySkipsFile(p) ==
    \/ IsNamed(p, UpdateFolder)
    \/ IsNamed(p, "tools")
    \/ starts_with_unins(p)
    \/ IsNamed(p, "appx")
    \/ IsNamed(p, "bootstrap")

LegacySkipsDir_none(d) == FALSE

LegacySkipsDir(d) == d \in {UpdateFolder, "tools", "appx", "bootstrap"}

\* main.rs:810-838: the root-level entries remove_files passes over
GcSkipsFile(p, code_path) ==
    \/ p = code_path
    \/ p = ManifestOf(code_path)
    \/ starts_with_unins(p)
    \/ IsNamed(p, "bootstrap")

GcSkipsDir_commitOnly(d, commit_to_preserve) == d = commit_to_preserve

GcSkipsDir(d, commit_to_preserve) == d = commit_to_preserve \/ d = "bootstrap"

\* The files for which the scan of each function opens a handle
TargetFiles(kind, f, ds, code_path, commit_to_preserve) ==
    CASE kind = "delete_existing_version" ->
           {p \in Files(f, "root") : ~LegacySkipsFile(p)}
             \cup UNION {Files(f, d) : d \in {x \in ds : ~LegacySkipsDir(x)}}
      [] kind = "remove_files" ->
           {p \in Files(f, "root") : ~GcSkipsFile(p, code_path)}
             \cup (IF "bin" \in ds /\ ~GcSkipsDir("bin", commit_to_preserve)
                   THEN {p \in Files(f, "bin") : p.prefix = "old_"}
                   ELSE {})
      [] kind = "cleanup_dll_files" ->
           {p \in Files(f, "root") : eq_ignore_ascii_case(extension(p), "dll")}

\* top_directories (main.rs:146-148) and directories_to_remove (main.rs:887-890)
TargetDirs(kind, ds, commit_to_preserve) ==
    CASE kind = "delete_existing_version" -> {d \in ds : ~LegacySkipsDir(d)}
      [] kind = "remove_files" ->
           {d \in ds : ~GcSkipsDir(d, commit_to_preserve) /\ d # "bin"}
      [] kind = "cleanup_dll_files" -> {}

Handle(p, st) == [path |-> p, st |-> st]

HandlesIn(st) == {i \in DOMAIN handles : handles[i].st = st}

\* The next handle of a `for file_handle in &file_handles` loop that is
\* still in state st: the loops visit the list in order.
NextIn(st) == CHOOSE i \in HandlesIn(st) : \A j \in HandlesIn(st) : i <= j

ScanFinished_early(t) == TRUE

\* main.rs:105-172: the scan ends when no file is left to open
ScanFinished(t) == t = <<>>

MarkingFinished_early(hs) == TRUE

\* main.rs:174-182: the marking loop ends after the last handle
MarkingFinished(hs) == \A i \in DOMAIN hs : hs[i].st # "Acquired"

\* cleanup_dll_files returns at once when ffmpeg.dll is absent (main.rs:700)
ReturnsBeforeScan(kind, f) == kind = "cleanup_dll_files" /\ ~exists(f, Ffmpeg)

\* The function is entered: its locals are set up.
StartDelete(kind, code_path) ==
    /\ dkind' = kind
    /\ handles' = <<>>
    /\ IF ReturnsBeforeScan(kind, fs)
       THEN /\ todo' = <<>>
            /\ rmdirs' = <<>>
            /\ dres' = "Ok"
            /\ pc' = "del_returned"
       ELSE /\ todo' = InOrder(ScanOrder,
                               TargetFiles(kind, fs, dirs, code_path, commit))
            /\ rmdirs' = InOrder(DirOrder, TargetDirs(kind, dirs, commit))
            /\ dres' = "none"
            /\ pc' = "del_scan"

DeleteReturns(r) ==
    /\ dres' = r
    /\ pc' = "del_returned"

\* util::retry(.., FileHandle::new(&entry_path), Some(16))?: the handle is
\* collected, or the error is returned once the retries are given up.
Acquire ==
    /\ pc = "del_scan"
    /\ todo # <<>>
    /\ \E ok \in BOOLEAN :
         IF ok
         THEN /\ handles' = Append(handles, Handle(Head(todo), "Acquired"))
              /\ todo' = Tail(todo)
              /\ UNCHANGED <<pc, dres>>
         ELSE /\ DeleteReturns("ErrAcquire")
              /\ UNCHANGED <<handles, todo>>
    /\ UNCHANGED <<fs, pre, result, calls, dirs, updVars, dkind, rmdirs>>
    /\ UNCHANGED auxVars

\* fs::read_dir(..)?, entry? and entry.file_type()? return the error
ScanError ==
    /\ pc = "del_scan"
    /\ todo # <<>>
    /\ DeleteReturns("ErrReadDir")
    /\ UNCHANGED <<fs, pre, result, calls, dirs, updVars, dkind, todo, handles, rmdirs>>
    /\ UNCHANGED auxVars

\* "Collected all directories and file handles"
Collected ==
    /\ pc = "del_scan"
    /\ ScanFinished(todo)
    /\ pc' = "del_mark"
    /\ UNCHANGED <<fs, pre, result, calls, dirs, updVars, delVars>>
    /\ UNCHANGED auxVars

\* util::retry(.., file_handle.mark_for_deletion(), None)?
Mark ==
    /\ pc = "del_mark"
    /\ HandlesIn("Acquired") # {}
    /\ \E ok \in BOOLEAN :
         IF ok
         THEN /\ handles' = [handles EXCEPT ![NextIn("Acquired")].st = "Marked"]
              /\ UNCHANGED <<pc, dres>>
         ELSE /\ DeleteReturns("ErrMark")
              /\ UNCHANGED handles
    /\ UNCHANGED <<fs, pre, result, calls, dirs, updVars, dkind, todo, rmdirs>>
    /\ UNCHANGED auxVars

\* "All file handles marked for deletion"
AllMarked ==
    /\ pc = "del_mark"
    /\ MarkingFinished(handles)
    /\ pc' = "del_close"
    /\ UNCHANGED <<fs, pre, result, calls, dirs, updVars, delVars>>
    /\ UNCHANGED auxVars

\* util::retry(.., file_handle.close(), None)?: closing a marked handle
\* unlinks its file.
Close ==
    /\ pc = "del_close"
    /\ HandlesIn("Marked") # {}
    /\ \E ok \in BOOLEAN :
         IF ok
         THEN LET i == NextIn("Marked")
              IN  /\ handles' = [handles EXCEPT ![i].st = "Closed"]
                  /\ fs' = [fs EXCEPT ![handles[i].path] = Absent]
                  /\ UNCHANGED <<pc, dres>>
         ELSE /\ DeleteReturns("ErrClose")
              /\ UNCHANGED <<handles, fs>>
    /\ UNCHANGED <<pre, result, calls, dirs, updVars, dkind, todo, rmdirs>>
    /\ UNCHANGED auxVars

\* "All files deleted"
AllClosed ==
    /\ pc = "del_close"
    /\ HandlesIn("Marked") = {}
    /\ pc' = "del_rmdirs"
    /\ UNCHANGED <<fs, pre, result, calls, dirs, updVars, delVars>>
    /\ UNCHANGED auxVars

\* util::retry(.., fs::remove_dir_all(&dir), None)? for each directory
RemoveDir ==
    /\ pc = "del_rmdirs"
    /\ rmdirs # <<>>
    /\ \E ok \in BOOLEAN :
         IF ok
         THEN /\ fs' = remove_dir_all(fs, Head(rmdirs))
              /\ dirs' = dirs \ {Head(rmdirs)}
              /\ rmdirs' = Tail(rmdirs)
              /\ UNCHANGED <<pc, dres>>
         ELSE /\ DeleteReturns("ErrRemoveDir")
              /\ UNCHANGED <<fs, dirs, rmdirs>>
    /\ UNCHANGED <<pre, result, calls, updVars, dkind, todo, handles>>
    /\ UNCHANGED auxVars

\* The function returns Ok(())
DeleteDone ==
    /\ pc = "del_rmdirs"
    /\ rmdirs = <<>>
    /\ DeleteReturns("Ok")
    /\ UNCHANGED <<fs, pre, result, calls, dirs, updVars, dkind, todo, handles, rmdirs>>
    /\ UNCHANGED auxVars

DeleteStep ==
    \/ Acquire
    \/ ScanError
    \/ Collected
    \/ Mark
    \/ AllMarked
    \/ Close
    \/ AllClosed
    \/ RemoveDir
    \/ DeleteDone

-----------------------------------------------------------------------------
(* SpecDelete: one call of a bulk deletion on an install directory *)

\* What an install directory holds before a deletion: the executable and
\* the uninstall data always, any of the rest.
DeleteOptional ==
    {old_(Exe), Manifest, Ffmpeg, LibDll, Readme,
     old_(BinFile(BinPool[1])), BinFile(BinPool[1]), ResFile, DeepUnins,
     ResDll, BootstrapFile, ToolsFile}

InitialDirs(f) == {d \in TopDirs : Files(f, d) # {}}

InitialContents(p) ==
    CASE p.prefix = "old_" -> "stale"
      [] p.prefix = "new_" -> "new"
      [] OTHER -> "cur"

InitDelete ==
    /\ \E present \in SUBSET DeleteOptional :
         fs = [p \in InstallPaths |->
                 IF p \in present \cup {Exe, Unins, CommitFile}
                 THEN InitialContents(p) ELSE Absent]
    /\ pre = fs
    /\ dirs = InitialDirs(fs)
    /\ pc = "del_call"
    /\ result = "none"
    /\ calls = <<>>
    /\ commit = CommitName
    /\ bin_files = <<>>
    /\ renamed_files = <<>>
    /\ staged = <<>>
    /\ steps = <<>>
    /\ log = {}
    /\ dkind = "none"
    /\ todo = <<>>
    /\ handles = <<>>
    /\ rmdirs = <<>>
    /\ dres = "none"
    /\ RetryIdle /\ ProcIdle /\ CodecIdle

CallDelete ==
    /\ pc = "del_call"
    /\ \E kind \in DeleteKinds : StartDelete(kind, Exe)
    /\ UNCHANGED <<fs, pre, result, calls, dirs, updVars>>
    /\ UNCHANGED auxVars

NextDelete == CallDelete \/ DeleteStep

SpecDelete == InitDelete /\ [][NextDelete]_vars


-----------------------------------------------------------------------------
(* update: the strategy selection, the modern three-way rename strategy    *)
(* and the legacy do_update                                                *)

Started(step) == \E i \in DOMAIN steps : steps[i] = step

\* The place of a step in `steps`, 0 when it was never started
IndexOf(step) ==
    IF Started(step) THEN CHOOSE i \in DOMAIN steps : steps[i] = step ELSE 0

Count(step) == Cardinality({i \in DOMAIN steps : steps[i] = step})

StrategyIsModern_never(f, code_path) == FALSE

\* main.rs:420: if new_exe_path.exists()
StrategyIsModern(f, code_path) == exists(f, new_(code_path))

\* main.rs:388-396: the progress window's thread hands over its window, or
\* ends without doing so and update returns the error.
ReceiveWindow ==
    /\ pc = "recv"
    /\ \E ok \in BOOLEAN :
         IF ok
         THEN pc' = "select" /\ UNCHANGED result
         ELSE pc' = "done" /\ result' = "ErrNoWindow"
    /\ UNCHANGED <<fs, pre, calls, dirs, updVars, delVars>>
    /\ UNCHANGED auxVars

\* main.rs:420 and 529-533
SelectStrategy ==
    /\ pc = "select"
    /\ IF StrategyIsModern(fs, Exe)
       THEN pc' = "bin" /\ steps' = Append(steps, "modern")
       ELSE pc' = "move_update" /\ steps' = Append(steps, "do_update")
    /\ UNCHANGED <<fs, pre, result, calls, dirs, commit, bin_files,
                   renamed_files, staged, log, delVars>>
    /\ UNCHANGED auxVars

\* main.rs:428-442: the names in bin that start with neither old_ nor new_
CollectableBinFiles(f) ==
    {p \in Files(f, "bin") : p.prefix # "old_" /\ p.prefix # "new_"}

\* main.rs:424-445 and 472-474
CollectBinFiles ==
    /\ pc = "bin"
    /\ IF "bin" \in dirs
       THEN /\ \E readOk \in BOOLEAN :
                 bin_files' = IF readOk
                              THEN InOrder(BinOrder, CollectableBinFiles(fs))
                              ELSE <<>>
            /\ steps' = Append(steps, "bin_files")
            /\ pc' = "bin_loop"
       ELSE /\ pc' = "exe"
            /\ UNCHANGED <<bin_files, steps>>
    /\ renamed_files' = <<>>
    /\ UNCHANGED <<fs, pre, result, calls, dirs, commit, staged, log, delVars>>
    /\ UNCHANGED auxVars

LogLine(msg, about) == <<msg, about>>

\* main.rs:448-469: one iteration of `for file_name in bin_files`
ProcessBinFile ==
    /\ pc = "bin_loop"
    /\ bin_files # <<>>
    /\ LET c == Head(bin_files)
       IN  IF exists(fs, new_(c))
           THEN \E ok1, ok2, ok3 \in BOOLEAN :
                  LET r == perform_three_way_rename(fs, c, old_(c), new_(c),
                                                    ok1, ok2, ok3)
                  IN  /\ fs' = r.fs
                      /\ calls' = r.ops
                      /\ IF r.res = "Ok"
                         THEN /\ renamed_files' = Append(renamed_files, c)
                              /\ log' = log \cup {LogLine("Found new bin file", c)}
                         ELSE /\ log' = log \cup
                                   {LogLine("Found new bin file", c),
                                    LogLine("Bin file update failed", c)}
                              /\ UNCHANGED renamed_files
           ELSE UNCHANGED <<fs, calls, renamed_files, log>>
    /\ bin_files' = Tail(bin_files)
    /\ UNCHANGED <<pre, pc, result, dirs, commit, staged, steps, delVars>>
    /\ UNCHANGED auxVars

\* main.rs:471: "Bin directory processing complete"
BinLoopDone ==
    /\ pc = "bin_loop"
    /\ bin_files = <<>>
    /\ pc' = "exe"
    /\ UNCHANGED <<fs, pre, result, calls, dirs, updVars, delVars>>
    /\ UNCHANGED auxVars

ExeFailureReturns_never(res) == FALSE

\* main.rs:478-482: if let Err(err) = perform_three_way_rename(..) { return Err(err) }
ExeFailureReturns(res) == res # "Ok"

AfterExe_wait == "wait"

\* main.rs:484-503: the manifest's swap follows the executable's
AfterExe == "manifest"

\* main.rs:476-482
SwapExe ==
    /\ pc = "exe"
    /\ steps' = Append(steps, "exe")
    /\ \E ok1, ok2, ok3 \in BOOLEAN :
         LET r == perform_three_way_rename(fs, Exe, old_(Exe), new_(Exe),
                                           ok1, ok2, ok3)
         IN  /\ fs' = r.fs
             /\ calls' = r.ops
             /\ log' = IF r.res = "Ok" THEN log
                       ELSE log \cup {LogLine("Executable update failed", Exe)}
             /\ IF ExeFailureReturns(r.res)
                THEN /\ result' = r.res
                     /\ pc' = "done"
                ELSE /\ pc' = AfterExe
                     /\ UNCHANGED result
    /\ UNCHANGED <<pre, dirs, commit, bin_files, renamed_files, staged, delVars>>
    /\ UNCHANGED auxVars

\* main.rs:484-503
SwapManifest ==
    /\ pc = "manifest"
    /\ LET c == ManifestOf(Exe)
       IN  IF exists(fs, new_(c))
           THEN /\ steps' = Append(steps, "manifest")
                /\ \E ok1, ok2, ok3 \in BOOLEAN :
                     LET r == perform_three_way_rename(fs, c, old_(c), new_(c),
                                                       ok1, ok2, ok3)
                     IN  /\ fs' = r.fs
                         /\ calls' = r.ops
                         /\ log' = log \cup
                              {IF r.res = "Ok"
                               THEN LogLine("Successfully updated manifest file", c)
                               ELSE LogLine("Manifest file update failed", c)}
           ELSE /\ log' = log \cup {LogLine("No new manifest file found", c)}
                /\ UNCHANGED <<fs, calls, steps>>
    /\ pc' = "wait"
    /\ UNCHANGED <<pre, result, dirs, commit, bin_files, renamed_files, staged,
                   delVars>>
    /\ UNCHANGED auxVars

\* main.rs:505-506: process::wait_or_kill(log, code_path)?
WaitOrKill ==
    /\ pc = "wait"
    /\ steps' = Append(steps, "wait_or_kill")
    /\ \E ok \in BOOLEAN :
         IF ok
         THEN pc' = "cleanup" /\ UNCHANGED result
         ELSE pc' = "done" /\ result' = "ErrWaitOrKill"
    /\ UNCHANGED <<fs, pre, calls, dirs, commit, bin_files, renamed_files,
                   staged, log, delVars>>
    /\ UNCHANGED auxVars

\* main.rs:509-525: remove_files with a commit, cleanup_dll_files without
CleanupKind(c) == IF c # "none" THEN "remove_files" ELSE "cleanup_dll_files"

StartCleanup ==
    /\ pc = "cleanup"
    /\ steps' = Append(steps, CleanupKind(commit))
    /\ StartDelete(CleanupKind(commit), Exe)
    /\ UNCHANGED <<fs, pre, result, calls, dirs, commit, bin_files,
                   renamed_files, staged, log>>
    /\ UNCHANGED auxVars

CleanupResult_propagated(r) == r

\* main.rs:512-524: `if let Err(err) = ..  { warn!(..) }`, then Ok(())
CleanupResult(r) == "Ok"

CleanupReturns ==
    /\ pc = "del_returned"
    /\ dkind \in {"remove_files", "cleanup_dll_files"}
    /\ log' = IF dres = "Ok" THEN log
              ELSE log \cup {LogLine("Failed to clean up", dkind)}
    /\ result' = CleanupResult(dres)
    /\ pc' = "done"
    /\ UNCHANGED <<fs, pre, calls, dirs, commit, bin_files, renamed_files,
                   staged, steps, delVars>>
    /\ UNCHANGED auxVars

UpdateFolderCheck_skipped(f, ds) == "Ok"

\* main.rs:238-244: fs::metadata(&update_path)? fails when nothing has the
\* update folder's name, and a plain file of that name is "not a directory"
UpdateFolderCheck(f, ds) ==
    CASE UpdateFolder \in ds -> "Ok"
      [] exists(f, UpdateFolderFile) -> "ErrUpdateFolderNotDir"
      [] OTHER -> "ErrUpdateFolder"

\* main.rs:238-247: move_update needs the update folder, then deletes the
\* installed version
MoveUpdate ==
    /\ pc = "move_update"
    /\ IF UpdateFolderCheck(fs, dirs) = "Ok"
       THEN /\ steps' = steps \o <<"move_update", "delete_existing_version">>
            /\ StartDelete("delete_existing_version", Exe)
            /\ UNCHANGED result
       ELSE /\ steps' = Append(steps, "move_update")
            /\ result' = UpdateFolderCheck(fs, dirs)
            /\ pc' = "done"
            /\ UNCHANGED delVars
    /\ UNCHANGED <<fs, pre, calls, dirs, commit, bin_files, renamed_files,
                   staged, log>>
    /\ UNCHANGED auxVars

\* main.rs:247-250: delete_existing_version(..)? and fs::read_dir(&update_path)?
DeleteExistingReturns ==
    /\ pc = "del_returned"
    /\ dkind = "delete_existing_version"
    /\ IF dres = "Ok"
       THEN \E readOk \in BOOLEAN :
              IF readOk
              THEN /\ staged' = InOrder(ScanOrder, Files(fs, UpdateFolder))
                   /\ steps' = Append(steps, "promote")
                   /\ pc' = "promote"
                   /\ UNCHANGED result
              ELSE /\ result' = "ErrReadDir"
                   /\ pc' = "done"
                   /\ UNCHANGED <<staged, steps>>
       ELSE /\ result' = dres
            /\ pc' = "done"
            /\ UNCHANGED <<staged, steps>>
    /\ UNCHANGED <<fs, pre, calls, dirs, commit, bin_files, renamed_files,
                   log, delVars>>
    /\ UNCHANGED auxVars

\* main.rs:250-270: each entry of the update folder is renamed into the root
Promote ==
    /\ pc = "promote"
    /\ staged # <<>>
    /\ \E ok \in BOOLEAN :
         LET e == Head(staged)
         IN  IF ok
             THEN /\ fs' = rename(fs, e, Path("root", e.prefix, e.base), ok)
                  /\ staged' = Tail(staged)
                  /\ UNCHANGED <<pc, result>>
             ELSE /\ result' = "ErrRename"
                  /\ pc' = "done"
                  /\ UNCHANGED <<fs, staged>>
    /\ UNCHANGED <<pre, calls, dirs, commit, bin_files, renamed_files, steps,
                   log, delVars>>
    /\ UNCHANGED auxVars

\* main.rs:272-273: fs::remove_dir_all(update_path)?
RemoveStaging ==
    /\ pc = "promote"
    /\ staged = <<>>
    /\ steps' = Append(steps, "remove_staging")
    /\ \E ok \in BOOLEAN :
         IF ok
         THEN /\ fs' = remove_dir_all(fs, UpdateFolder)
              /\ dirs' = dirs \ {UpdateFolder}
              /\ pc' = "patch"
              /\ UNCHANGED result
         ELSE /\ result' = "ErrRemoveStaging"
              /\ pc' = "done"
              /\ UNCHANGED <<fs, dirs>>
    /\ UNCHANGED <<pre, calls, commit, bin_files, renamed_files, staged, log,
                   delVars>>
    /\ UNCHANGED auxVars

\* What read_file can meet in unins000.dat, and whether write_file can
\* write it back.
UninstallLogStates ==
    {"valid", "unreadable", "bad_header", "corrupt_block",
     "unknown_record_kind", "odd_path_size", "bad_path_list", "unwritable"}

\* main.rs:278-336: the outcome of patch_uninstdat and what becomes of the
\* file.  UninstallRecTyp::from panics on an unknown record kind
\* (filerec.rs:53) and decode_strings asserts an even string size
\* (filerec.rs:116); every other failure is an Err.  write_file has
\* truncated the file (File::create) when a later write fails.
patch_uninstdat(log_state) ==
    CASE log_state = "valid" -> [res |-> "Ok", file |-> "patched"]
      [] log_state \in {"unknown_record_kind", "odd_path_size"} ->
           [res |-> "Panic", file |-> "cur"]
      [] log_state = "unwritable" -> [res |-> "Err", file |-> "truncated"]
      [] OTHER -> [res |-> "Err", file |-> "cur"]

\* main.rs:367-374: patch_uninstdat(..).unwrap_or_else(|err| warn!(..)); Ok(())
PatchUninstdat ==
    /\ pc = "patch"
    /\ steps' = Append(steps, "patch_uninstdat")
    /\ \E log_state \in UninstallLogStates :
         LET r == patch_uninstdat(log_state)
         IN  /\ fs' = [fs EXCEPT ![Unins] = r.file]
             /\ log' = log \cup {LogLine(log_state, Unins)} \cup
                  (IF r.res = "Err"
                   THEN {LogLine("Failed to patch uninst.dat file", Unins)}
                   ELSE {})
             /\ result' = IF r.res = "Panic" THEN "Panic" ELSE "Ok"
    /\ pc' = "done"
    /\ UNCHANGED <<pre, calls, dirs, commit, bin_files, renamed_files, staged,
                   delVars>>
    /\ UNCHANGED auxVars

\* What an install directory can hold when update starts.  _main has
\* checked that code_path exists.
UpdateOptional ==
    {new_(Exe), new_(Manifest), Ffmpeg, StagedExe, UpdateFolderFile}
      \cup {BinFile(b) : b \in BinNames} \cup {new_(BinFile(b)) : b \in BinNames}

\* A plain file named like the update folder stands where the folder
\* would be; it is enumerated for the installs that have no new_ executable.
UpdateInstalls ==
    {present \in SUBSET UpdateOptional :
        UpdateFolderFile \in present =>
            StagedExe \notin present /\ new_(Exe) \notin present}

InitUpdate ==
    /\ \E present \in UpdateInstalls :
         fs = [p \in InstallPaths |->
                 IF \/ p \in present \cup {Exe, Manifest, Unins, CommitFile, LibDll}
                    \/ p = StagedRes /\ StagedExe \in present
                 THEN InitialContents(p) ELSE Absent]
    /\ pre = fs
    /\ dirs = InitialDirs(fs)
    /\ commit \in {"none", CommitName}
    /\ pc = "recv"
    /\ result = "none"
    /\ calls = <<>>
    /\ bin_files = <<>>
    /\ renamed_files = <<>>
    /\ staged = <<>>
    /\ steps = <<>>
    /\ log = {}
    /\ dkind = "none"
    /\ todo = <<>>
    /\ handles = <<>>
    /\ rmdirs = <<>>
    /\ dres = "none"
    /\ RetryIdle /\ ProcIdle /\ CodecIdle

NextUpdate ==
    \/ ReceiveWindow
    \/ SelectStrategy
    \/ CollectBinFiles
    \/ ProcessBinFile
    \/ BinLoopDone
    \/ SwapExe
    \/ SwapManifest
    \/ WaitOrKill
    \/ StartCleanup
    \/ CleanupReturns
    \/ MoveUpdate
    \/ DeleteExistingReturns
    \/ Promote
    \/ RemoveStaging
    \/ PatchUninstdat
    \/ DeleteStep

Spec == InitUpdate /\ [][NextUpdate]_vars


\* The update took the modern strategy / the legacy one.
Modern == Started("modern")
Legacy == Started("do_update")

ModernSteps ==
    {"modern", "bin_files", "exe", "manifest", "wait_or_kill", "remove_files",
     "cleanup_dll_files"}

LegacySteps ==
    {"do_update", "move_update", "delete_existing_version", "promote",
     "remove_staging", "patch_uninstdat"}

RenameErrors == {"ErrCurrentToOld", "ErrNewToCurrent"}

ExeSwapFailed == LogLine("Executable update failed", Exe) \in log

\* The three-way rename of this bin file was called.
BinAttempted(c) == LogLine("Found new bin file", c) \in log

\* The bin files the loop can meet that have a staged new_ twin.
StagedBinFiles == {c \in CollectableBinFiles(pre) : exists(pre, new_(c))}

\* C4: in the modern strategy, if the three-way rename of the main
\* executable fails, update returns that error at once and starts none of
\* the later steps: no manifest swap, no wait_or_kill, no garbage
\* collection, no DLL cleanup.
C4_ExeFailureAbortsUpdate ==
    ExeSwapFailed =>
        /\ pc = "done"
        /\ result = IF Attempted(Exe, old_(Exe), FALSE)
                    THEN "ErrCurrentToOld" ELSE "ErrNewToCurrent"
        /\ Attempted(Exe, old_(Exe), FALSE) \/ Attempted(new_(Exe), Exe, FALSE)
        /\ \A s \in {"manifest", "wait_or_kill", "remove_files", "cleanup_dll_files"} :
               ~Started(s)
        /\ \A l \in log : l[2] # Manifest
        /\ dkind = "none" /\ handles = <<>>

\* C4's case: the executable's swap failed although a new manifest was
\* staged and a commit was given, so later steps had work to do.
C4_Witness ==
    /\ ExeSwapFailed
    /\ pc = "done"
    /\ exists(pre, new_(Manifest))
    /\ commit # "none"
    /\ result = "ErrNewToCurrent"

\* C5: in the modern strategy the result of update depends only on the
\* executable's swap and on wait_or_kill.  A failed three-way rename of a
\* bin file or of the manifest and a failed garbage collection or DLL
\* cleanup are logged, do not stop the remaining items and steps, and do
\* not make the result an error.
C5_OnlyExeAndWaitDecideResult ==
    Modern =>
        \* an error comes from the executable's swap or from wait_or_kill
        /\ (result \in RenameErrors) <=> ExeSwapFailed
        /\ result \in RenameErrors \cup {"ErrWaitOrKill", "Ok", "none"}
        /\ result = "ErrWaitOrKill" =>
               /\ steps[Len(steps)] = "wait_or_kill"
               /\ ~ExeSwapFailed
        /\ (pc = "done" /\ Started(CleanupKind(commit))) => result = "Ok"
        /\ (pc = "done" /\ result = "Ok") => Started(CleanupKind(commit))
        \* a failed bin file does not end the loop, nor the update
        /\ \A c \in BinPaths :
              LogLine("Bin file update failed", c) \in log =>
                  /\ pc \in {"bin_loop", "exe"} \/ Started("exe")
                  /\ Started("exe") => \A d \in StagedBinFiles : BinAttempted(d)
        \* a failed manifest is followed by wait_or_kill
        /\ LogLine("Manifest file update failed", Manifest) \in log =>
               pc = "wait" \/ Started("wait_or_kill")
        \* a failed cleanup is logged and swallowed
        /\ (pc = "done" /\ dres \notin {"Ok", "none"}) =>
               /\ LogLine("Failed to clean up", dkind) \in log
               /\ result = "Ok"

\* C5's case: a bin file failed, the next one was still swapped, the
\* manifest failed, the cleanup failed, and update returned Ok.
C5_Witness ==
    /\ pc = "done"
    /\ result = "Ok"
    /\ \E c \in BinPaths : LogLine("Bin file update failed", c) \in log
    /\ Len(renamed_files) >= 1
    /\ LogLine("Manifest file update failed", Manifest) \in log
    /\ dres \in {"ErrAcquire", "ErrMark", "ErrClose"}

\* The items the modern strategy swaps that had a staged new_ file
StagedItems ==
    {c \in {Exe, Manifest} \cup {BinFile(b) : b \in BinNames} :
        exists(pre, new_(c))}

\* C6 (as claimed): when the modern update returns, success or error, it is
\* never the case that one staged item has been swapped to its new version
\* while another item that had a staged new_ file still is at its old one.
C6_NeverHalfUpdated ==
    (pc = "done" /\ Modern) =>
        ~ \E c, d \in StagedItems :
             /\ fs[c] = pre[new_(c)]
             /\ exists(pre, d) /\ fs[d] = pre[d]

\* C7 (as claimed): if the main executable existed when the modern update
\* started, a file exists at its path when update returns, holding the old
\* or the new executable.
C7_ExeNeverMissing ==
    (pc = "done" /\ Modern /\ exists(pre, Exe)) =>
        fs[Exe] \in {pre[Exe], pre[new_(Exe)]}

\* C8: update runs exactly one strategy, chosen once from whether
\* new_<executable> exists when update starts.  If it exists only modern
\* steps run: no bulk delete of the install root, no promotion of the
\* staging folder, no change of the uninstall log.  If not, only the legacy
\* do_update runs: no three-way rename, no wait_or_kill, no garbage
\* collection, no DLL cleanup.
C8_ExactlyOneStrategy ==
    /\ exists(pre, new_(Exe)) =>
          /\ \A i \in DOMAIN steps : steps[i] \notin LegacySteps
          /\ dkind # "delete_existing_version"
          /\ staged = <<>>
          /\ \A p \in Files(pre, UpdateFolder) :
                 fs[Path("root", p.prefix, p.base)] # pre[p] \/ exists(pre, Path("root", p.prefix, p.base))
          /\ fs[Unins] = pre[Unins]
    /\ ~exists(pre, new_(Exe)) =>
          /\ \A i \in DOMAIN steps : steps[i] \notin ModernSteps
          /\ calls = <<>>
          /\ dkind \notin {"remove_files", "cleanup_dll_files"}
    /\ Count("modern") + Count("do_update") <= 1
    /\ (pc \notin {"recv", "select"} /\ result # "ErrNoWindow") =>
          /\ Count("modern") + Count("do_update") = 1
          /\ steps[1] = IF exists(pre, new_(Exe)) THEN "modern" ELSE "do_update"

\* C8's case: a new executable was staged while an update folder was there
\* too; the modern strategy ran to its end.
C8_Witness ==
    /\ pc = "done"
    /\ result = "Ok"
    /\ exists(pre, new_(Exe))
    /\ exists(pre, StagedExe)
    /\ Started("wait_or_kill")

\* The update has begun to delete: a handle was opened or a directory
\* removed.
DeletionBegun == handles # <<>> \/ dirs # InitialDirs(pre)

HandlePaths == {handles[i].path : i \in DOMAIN handles}

\* The files the running bulk deletion has to delete
FilesToDelete == TargetFiles(dkind, pre, InitialDirs(pre), Exe, commit)

\* No handle is marked before every file to delete has its handle, and no
\* handle is closed before every handle is marked.
PhasesApart ==
    /\ HandlesIn("Marked") \cup HandlesIn("Closed") # {} =>
           /\ todo = <<>>
           /\ HandlePaths = FilesToDelete
           /\ Len(handles) = Cardinality(FilesToDelete)
    /\ HandlesIn("Closed") # {} => HandlesIn("Acquired") = {}

\* A step keeps the collected handles and moves each of them at most one
\* stage forward; a new handle starts as Acquired.
HandleLifecycle ==
    /\ Len(handles') >= Len(handles)
    /\ \A i \in DOMAIN handles :
          /\ handles'[i].path = handles[i].path
          /\ \/ handles'[i].st = handles[i].st
             \/ handles[i].st = "Acquired" /\ handles'[i].st = "Marked"
             \/ handles[i].st = "Marked" /\ handles'[i].st = "Closed"
    /\ \A i \in DOMAIN handles' \ DOMAIN handles : handles'[i].st = "Acquired"

\* C10: in every bulk deletion (delete_existing_version, remove_files,
\* cleanup_dll_files) the phases never interleave: no handle is marked for
\* deletion until a handle was acquired for every file to delete, and no
\* handle is closed until all are marked; each handle goes
\* Acquired -> Marked -> Closed and is never marked after it is closed.
C10_DeletionPhasesNeverInterleave ==
    []PhasesApart /\ [][HandleLifecycle]_vars

\* C10's case: a deletion of several files went through all three phases.
C10_Witness ==
    /\ pc = "del_returned"
    /\ dres = "Ok"
    /\ Len(handles) >= 2
    /\ \A i \in DOMAIN handles : handles[i].st = "Closed"

\* A bulk deletion returned an error from its scan, marking or closing
\* phase.
DeletionFailed ==
    /\ pc = "del_returned"
    /\ dres \in {"ErrAcquire", "ErrReadDir", "ErrMark", "ErrClose"}

\* C11 (as claimed): whenever delete_existing_version, remove_files or
\* cleanup_dll_files returns an error (a failed acquisition, marking or
\* close), no file of the subtree has been deleted.
C11_FailureLeavesNothingDeleted ==
    DeletionFailed => \A p \in InstallPaths : exists(pre, p) => exists(fs, p)

\* The entries of the install root the claim excludes, with everything
\* beneath them.
ExcludedFromLegacyDelete(p) ==
    \/ p.dir = "root" /\ p.prefix = "unins"
    \/ p.dir = "root" /\ p.prefix = ""
         /\ p.base \in {UpdateFolder, "tools", "appx", "bootstrap"}
    \/ p.dir \in {UpdateFolder, "tools", "appx", "bootstrap"}

\* C12: delete_existing_version acquires exactly one handle for every file
\* of the install-root subtree except the root-level entries named as the
\* staging folder, "tools", "appx", "bootstrap" or starting with "unins" and
\* everything beneath them; the excluded entries are never handled or
\* deleted; an entry with such a name deeper in the tree is deleted like any
\* other file.
C12_LegacyDeleteCoversAllButExcluded ==
    dkind = "delete_existing_version" =>
        /\ \A i \in DOMAIN handles : ~ExcludedFromLegacyDelete(handles[i].path)
        /\ \A i, j \in DOMAIN handles :
              handles[i].path = handles[j].path => i = j
        /\ \A p \in InstallPaths : ExcludedFromLegacyDelete(p) => fs[p] = pre[p]
        /\ \A d \in {UpdateFolder, "tools", "appx", "bootstrap"} :
              /\ d \in InitialDirs(pre) => d \in dirs
              /\ \A i \in DOMAIN rmdirs : rmdirs[i] # d
        /\ (pc \in {"del_mark", "del_close", "del_rmdirs"} \/ dres = "Ok") =>
              HandlePaths =
                 {p \in InstallPaths :
                     exists(pre, p) /\ ~ExcludedFromLegacyDelete(p)}
        /\ dres = "Ok" =>
              \A p \in InstallPaths :
                 ~ExcludedFromLegacyDelete(p) => ~exists(fs, p)

\* C12's case: the tools folder and a deeper unins000.dat were there; the
\* deletion ran to its end, kept the first and deleted the second.
C12_Witness ==
    /\ dkind = "delete_existing_version"
    /\ pc = "del_returned" /\ dres = "Ok"
    /\ exists(pre, ToolsFile) /\ exists(fs, ToolsFile)
    /\ exists(pre, DeepUnins) /\ ~exists(fs, DeepUnins)
    /\ exists(fs, Unins)

\* C13 (as claimed): in the legacy strategy, once the staged files are
\* promoted, any failure while decoding, rebasing, deduplicating or
\* rewriting the uninstall log is caught and logged and do_update still
\* returns success.
C13_CorruptLogNeverFailsUpdate ==
    (pc = "done" /\ Started("patch_uninstdat")) =>
        /\ result = "Ok"
        /\ LogLine("valid", Unins) \in log
             \/ LogLine("Failed to patch uninst.dat file", Unins) \in log

-----------------------------------------------------------------------------
(* util::retry (util.rs:21-55) *)

\* No update, rename or bulk deletion is under study.
InstallIdle ==
    /\ fs = [p \in InstallPaths |-> Absent]
    /\ pre = fs
    /\ result = "none"
    /\ calls = <<>>
    /\ dirs = {}
    /\ commit = "none"
    /\ bin_files = <<>>
    /\ renamed_files = <<>>
    /\ staged = <<>>
    /\ steps = <<>>
    /\ log = {}
    /\ dkind = "none"
    /\ todo = <<>>
    /\ handles = <<>>
    /\ rmdirs = <<>>
    /\ dres = "none"

\* How often the prompt is answered Retry in one call, at most
MaxRetries == 1

\* util.rs:27: unwrap_or(11)
DefaultMaxAttempts == 11

\* The calls of util::retry: task and max_attempts.  The last four are not
\* call sites of the updater: main.rs:1289-1298 is the retry simulation,
\* the others are calls with small explicit bounds.
RetryCalls ==
    {[task |-> "Opening file handle", max |-> Some(16)],
     [task |-> "marking a file for deletion", max |-> None],
     [task |-> "closing a file handle", max |-> None],
     [task |-> "Deleting a directory", max |-> None],
     [task |-> "Renaming", max |-> None],
     [task |-> "attempting to kill any running processes", max |-> None],
     [task |-> "simulating a failed retry operation", max |-> Some(5)],
     [task |-> "op", max |-> Some(10)],
     [task |-> "op", max |-> Some(11)],
     [task |-> "op", max |-> Some(1)]}

unwrap_or_16(opt, d) == IF opt.some THEN opt.n ELSE 16

\* Option::unwrap_or
unwrap_or(opt, d) == IF opt.some THEN opt.n ELSE d

\* util.rs:27: let max_attempts = max_attempts.into().unwrap_or(11)
EffectiveMax(arg) == unwrap_or(arg, DefaultMaxAttempts)

PromptDue_after(a, max) == a > max

\* util.rs:36: if attempt >= max_attempts
PromptDue(a, max) == a >= max

ResetAttempt_kept(a) == a

\* util.rs:43: attempt = 0
ResetAttempt(a) == 0

Backoff_linear(a) == a * 50

\* util.rs:51: (attempt.pow(2) * 50) as u64.  The product is computed in
\* u32; with the bounds of the call sites (at most 16) it stays below 12800
\* and never wraps.
Backoff(a) == a * a * 50

\* util.rs:30-35 and 36: one pass of the loop up to the closure's result:
\* the counter is incremented, the closure is invoked with it, a success
\* is returned at once.
RetryInvoke(ok) ==
    /\ pc = "retry_invoke"
    /\ LET a == attempt + 1
       IN  /\ attempt' = a
           /\ invoked' = Append(invoked, [attempt |-> a, ok |-> ok])
           /\ IF ok
              THEN pc' = "retry_returned" /\ rres' = "Ok"
              ELSE /\ pc' = IF PromptDue(a, EffectiveMax(max_arg))
                            THEN "retry_prompt" ELSE "retry_sleep"
                   /\ UNCHANGED rres
    /\ UNCHANGED <<task, max_arg, sleeps, answers>>

\* util.rs:37-48: the retry/cancel message box and the match on its result
RetryPrompt ==
    /\ pc = "retry_prompt"
    /\ \E mb_result \in {"Retry", "Cancel"} :
         /\ answers' = Append(answers, mb_result)
         /\ IF mb_result = "Retry"
            THEN /\ Len(SelectSeq(answers, LAMBDA x : x = "Retry")) < MaxRetries
                 /\ attempt' = ResetAttempt(attempt)
                 /\ pc' = "retry_sleep"
                 /\ UNCHANGED rres
            ELSE /\ rres' = "Err"
                 /\ pc' = "retry_returned"
                 /\ UNCHANGED attempt
    /\ UNCHANGED <<task, max_arg, invoked, sleeps>>

\* util.rs:51: thread::sleep, then the next pass of the loop
RetrySleep ==
    /\ pc = "retry_sleep"
    /\ sleeps' = Append(sleeps, [after |-> invoked[Len(invoked)].attempt,
                                 ms |-> Backoff(attempt)])
    /\ pc' = "retry_invoke"
    /\ UNCHANGED <<task, max_arg, attempt, invoked, answers, rres>>

InitRetry ==
    /\ InstallIdle /\ ProcIdle /\ CodecIdle
    /\ \E call \in RetryCalls : task = call.task /\ max_arg = call.max
    /\ attempt = 0
    /\ invoked = <<>>
    /\ sleeps = <<>>
    /\ answers = <<>>
    /\ rres = "none"
    /\ pc = "retry_invoke"

\* The closure of a call under study: any attempt may fail or succeed.
InvokeOp ==
    /\ \E ok \in BOOLEAN : RetryInvoke(ok)
    /\ UNCHANGED <<installVars, procVars, codecVars>>

Prompt == RetryPrompt /\ UNCHANGED <<installVars, procVars, codecVars>>

Sleep == RetrySleep /\ UNCHANGED <<installVars, procVars, codecVars>>

NextRetry == InvokeOp \/ Prompt \/ Sleep

SpecRetry == InitRetry /\ [][NextRetry]_vars

\* The bound in force for the call under study
Bound == EffectiveMax(max_arg)

LastInvoked == invoked[Len(invoked)]

NoneSucceeded == \A i \in DOMAIN invoked : ~invoked[i].ok

\* A success is the last invocation and is returned at once.
FirstSuccessReturned ==
    /\ \A i \in DOMAIN invoked :
          invoked[i].ok =>
              i = Len(invoked) /\ pc = "retry_returned" /\ rres = "Ok"
    /\ rres = "Ok" => invoked # <<>> /\ LastInvoked.ok

\* C14 (as claimed): retry(op, m) invokes op with attempt numbers 1, 2, 3,
\* ... and returns the first success at once; if op fails on every attempt
\* up to m it returns the failure of attempt m after exactly m invocations.
C14_RetryReturnsAfterBound ==
    task # "none" =>
        /\ \A i \in DOMAIN invoked : invoked[i].attempt = i
        /\ FirstSuccessReturned
        /\ Len(invoked) <= Bound
        /\ rres = "Err" => Len(invoked) = Bound /\ NoneSucceeded

\* C14 (amended): retry(op, m) invokes op with attempt numbers 1, 2, 3, ...
\* and returns the first success at once; if op fails on every attempt up
\* to m the retry/cancel prompt is shown after exactly m invocations, and
\* answered cancel retry returns the failure of attempt m without another
\* invocation (answered retry, the numbering starts again at 1).  An op
\* that fails on attempts 1-10 and succeeds on attempt 11 returns success
\* with bound 11; with bound 10 the attempt-10 failure is returned once the
\* prompt is cancelled.
C14_RetryReturnsAfterBoundOnCancel ==
    task # "none" =>
        /\ \A i \in DOMAIN invoked : invoked[i].attempt = ((i - 1) % Bound) + 1
        /\ FirstSuccessReturned
        /\ answers = <<>> => Len(invoked) <= Bound
        /\ pc = "retry_prompt" =>
              /\ NoneSucceeded
              /\ Len(invoked) = Bound * (Len(answers) + 1)
        /\ rres = "Err" =>
              /\ NoneSucceeded
              /\ answers[Len(answers)] = "Cancel"
              /\ Len(invoked) = Bound * Len(answers)
              /\ LastInvoked.attempt = Bound
        /\ (max_arg = Some(11) /\ Len(invoked) = 11 /\ invoked[11].ok) =>
              rres = "Ok" /\ sleeps # <<>> /\ answers = <<>>
        /\ (max_arg = Some(10) /\ Len(invoked) = 10 /\ NoneSucceeded) =>
              pc = "retry_prompt" \/ answers # <<>>

\* C14's case: with bound 10 ten attempts failed, the prompt was cancelled
\* and the failure of attempt 10 returned.
C14_Witness ==
    /\ max_arg = Some(10)
    /\ rres = "Err"
    /\ Len(invoked) = 10
    /\ LastInvoked.attempt = 10

RECURSIVE SumMs(_)
SumMs(sq) == IF sq = <<>> THEN 0 ELSE Head(sq).ms + SumMs(Tail(sq))

\* C15: a failed attempt number k with k < max_attempts is followed by a
\* sleep of exactly k*k*50 ms before attempt k+1, no sleep follows a
\* successful attempt, and with the default bound 11 the sleeps before the
\* bound is exhausted sum to 19250 ms.
C15_QuadraticBackoff ==
    task # "none" =>
        /\ Len(sleeps) <= Len(invoked)
        /\ \A j \in DOMAIN sleeps :
              /\ sleeps[j].after = invoked[j].attempt
              /\ ~invoked[j].ok
              /\ sleeps[j].after < Bound =>
                    /\ sleeps[j].ms = sleeps[j].after * sleeps[j].after * 50
                    /\ j < Len(invoked) =>
                          invoked[j + 1].attempt = sleeps[j].after + 1
        /\ \A i \in DOMAIN invoked :
              (~invoked[i].ok /\ invoked[i].attempt < Bound /\ i < Len(invoked))
                  => i \in DOMAIN sleeps
        /\ pc = "retry_invoke" => Len(sleeps) = Len(invoked)
        /\ rres = "Ok" => Len(sleeps) = Len(invoked) - 1
        /\ (max_arg = None /\ pc = "retry_prompt" /\ answers = <<>>) =>
              /\ Len(sleeps) = 10
              /\ SumMs(sleeps) = 19250

\* C15's case: no bound was given and eleven attempts failed.
C15_Witness ==
    /\ max_arg = None
    /\ pc = "retry_prompt"
    /\ answers = <<>>
    /\ sleeps[4].ms = 800

\* The invocations that failed with the bound reached
FailedAtBound ==
    {i \in DOMAIN invoked : ~invoked[i].ok /\ invoked[i].attempt >= Bound}

\* C16: the retry/cancel prompt is shown only when a failed attempt's
\* number has reached max_attempts; cancel returns that attempt's error
\* without another invocation; retry resets the counter so that the next
\* invocation carries attempt number 1 and a further max_attempts failures
\* are needed before the next prompt.
C16_PromptAtBoundOnly ==
    task # "none" =>
        /\ pc = "retry_prompt" =>
              /\ invoked # <<>>
              /\ Len(invoked) \in FailedAtBound
        /\ Cardinality(FailedAtBound) =
              Len(answers) + (IF pc = "retry_prompt" THEN 1 ELSE 0)
        /\ \A j \in DOMAIN answers :
              answers[j] = "Cancel" =>
                  /\ j = Len(answers)
                  /\ pc = "retry_returned" /\ rres = "Err"
                  /\ Len(invoked) \in FailedAtBound
        /\ \A i \in DOMAIN invoked :
              (i - 1) \in FailedAtBound => invoked[i].attempt = 1
        /\ \A i \in FailedAtBound : i % Bound = 0
        /\ \A i, j \in FailedAtBound : i < j => j - i >= Bound

\* C16's case: the prompt was answered retry and, a further max_attempts
\* failures later, is shown again.
C16_Witness ==
    /\ answers = <<"Retry">>
    /\ pc = "retry_prompt"
    /\ Bound > 1

\* C17 (as claimed): each rename of a staging entry into the install root
\* is retried with no upper attempt cap: it never gives up or prompts
\* because an attempt bound was reached.
C17_PromotionRenameUnbounded ==
    task = "Renaming" => pc # "retry_prompt" /\ rres # "Err"

\* C17 (amended): each rename of a staging entry into the install root is
\* retried with the default bound of 11 attempts: after 11 failed attempts
\* the retry/cancel prompt is shown, and the rename gives up only when the
\* prompt is cancelled.
C17_PromotionRenameDefaultBound ==
    task = "Renaming" =>
        /\ max_arg = None
        /\ answers = <<>> => Len(invoked) <= 11
        /\ pc = "retry_prompt" =>
              NoneSucceeded /\ Len(invoked) = 11 * (Len(answers) + 1)
        /\ (Len(invoked) >= 11 /\ NoneSucceeded) =>
              pc = "retry_prompt" \/ answers # <<>>
        /\ rres = "Err" => answers[Len(answers)] = "Cancel"

\* C17's case: the rename failed eleven times and the prompt is shown.
C17_Witness ==
    /\ task = "Renaming"
    /\ pc = "retry_prompt"
    /\ Len(invoked) = 11

-----------------------------------------------------------------------------
(* process::wait_or_kill and kill_process_if (process.rs:81-173, 202-301) *)

\* How many processes the snapshot holds
MaxProcs == 2

\* process.rs:255-256: give up after 60 * 500ms = 30 seconds
MaxLivenessChecks == 60

TargetPath == "C:\\Code\\Code.exe"
OtherCodePath == "D:\\Portable\\Code.exe"
OtherExePath == "C:\\Windows\\explorer.exe"

\* The `path` arguments under study; the empty path has no file name
\* (process.rs:377-383).
Targets == {TargetPath, ""}

\* Path::file_name, "" standing for None
file_name(path) ==
    CASE path \in {TargetPath, OtherCodePath} -> "Code.exe"
      [] path = OtherExePath -> "explorer.exe"
      [] OTHER -> ""

\* A process of the snapshot: szExeFile and its module's full path
ProcessKinds ==
    {[name |-> file_name(path), path |-> path] :
        path \in {TargetPath, OtherCodePath, OtherExePath}}

\* process.rs:215-218: the processes whose name is the target's file name
TargetProcesses ==
    {pid \in DOMAIN procs : procs[pid].name = file_name(target)}

ReturnsAtOnce_never(tp) == FALSE

\* process.rs:220: if target_processes.is_empty()
ReturnsAtOnce(tp) == tp = {}

GiveUp_late(a) == a = MaxLivenessChecks + 1

\* process.rs:256: if attempt == 60
GiveUp(a) == a = MaxLivenessChecks

PathMatches_byName(process_path, path) == file_name(process_path) = file_name(path)

\* process.rs:151: process_path != path is false
PathMatches(process_path, path) == process_path = path

\* What OpenProcess and K32GetModuleFileNameExW can do for one process
KillInputs == {"access_denied", "open_failed", "no_module_name", "opened"}

\* process.rs:81-173: kill_process_if for one process, given what the OS
\* calls did: access denied is Ok, another path is Ok without a kill, the
\* target's path is terminated.
kill_process_if(process, path, os) ==
    IF os = "opened"
    THEN IF PathMatches(process.path, path) THEN "terminated" ELSE "other_path"
    ELSE os

\* process.rs:117-124 and 131-142: the outcomes that are an Err
KillError(outcome) == outcome \in {"open_failed", "no_module_name"}

KillTask == "attempting to kill any running processes"

\* process.rs:203-223: the file name, the snapshot and the early return
WaitCall ==
    /\ pc = "wait_call"
    /\ IF file_name(target) = ""
       THEN /\ wres' = "ErrNoFileName"
            /\ pc' = "wait_returned"
            /\ UNCHANGED <<procs, alive>>
       ELSE \E snapshot \in BOOLEAN :
              IF ~snapshot
              THEN /\ wres' = "ErrSnapshot"
                   /\ pc' = "wait_returned"
                   /\ UNCHANGED <<procs, alive>>
              ELSE \E ps \in [1..MaxProcs -> ProcessKinds] :
                     /\ procs' = ps
                     /\ alive' = DOMAIN ps
                     /\ IF ReturnsAtOnce({pid \in DOMAIN ps :
                                            ps[pid].name = file_name(target)})
                        THEN wres' = "Ok" /\ pc' = "wait_returned"
                        ELSE pc' = "wait_loop" /\ UNCHANGED wres
    /\ UNCHANGED <<target, checks, naps, still_running, kill_outcomes,
                   terminated>>
    /\ UNCHANGED <<installVars, retVars, codecVars>>

\* process.rs:237-265 and 277: one liveness check.  Processes may have
\* exited since the last one; is_process_running is false for a process it
\* cannot open.  When the loop breaks, util::retry is called.
LivenessCheck ==
    /\ pc = "wait_loop"
    /\ checks' = checks + 1
    /\ \E exited \in SUBSET (alive \cap TargetProcesses) :
         /\ alive' = alive \ exited
         /\ \E seen \in SUBSET (alive' \cap TargetProcesses) :
              /\ still_running' = seen
              /\ IF seen = {} \/ GiveUp(checks')
                 THEN /\ task' = KillTask
                      /\ max_arg' = None
                      /\ attempt' = 0
                      /\ pc' = "retry_invoke"
                 ELSE /\ pc' = "wait_nap"
                      /\ UNCHANGED <<task, max_arg, attempt>>
    /\ UNCHANGED <<target, procs, naps, kill_outcomes, terminated, wres>>
    /\ UNCHANGED <<installVars, invoked, sleeps, answers, rres, codecVars>>

\* process.rs:273: thread::sleep(500 ms)
Nap ==
    /\ pc = "wait_nap"
    /\ naps' = naps + 1
    /\ pc' = "wait_loop"
    /\ UNCHANGED <<target, procs, alive, checks, still_running, kill_outcomes,
                   terminated, wres>>
    /\ UNCHANGED <<installVars, retVars, codecVars>>

\* process.rs:279-297: one pass of the escalation closure over
\* still_running.  TerminateProcess is not waited for: the process may or
\* may not be gone afterwards.
KillPass ==
    /\ pc = "retry_invoke"
    /\ task = KillTask
    /\ \E os \in [still_running -> KillInputs] :
         LET outcome == [pid \in still_running |->
                            kill_process_if(procs[pid], target, os[pid])]
             killed == {pid \in still_running : outcome[pid] = "terminated"}
             kill_errors == {pid \in still_running : KillError(outcome[pid])}
         IN  /\ kill_outcomes' = outcome
             /\ terminated' = terminated \cup killed
             /\ \E gone \in SUBSET killed : alive' = alive \ gone
             /\ RetryInvoke(kill_errors = {})
    /\ UNCHANGED <<target, procs, checks, naps, still_running, wres>>
    /\ UNCHANGED <<installVars, codecVars>>

\* process.rs:277-300: wait_or_kill returns what util::retry returned
WaitReturns ==
    /\ pc = "retry_returned"
    /\ task = KillTask
    /\ wres' = rres
    /\ pc' = "wait_returned"
    /\ UNCHANGED <<target, procs, alive, checks, naps, still_running,
                   kill_outcomes, terminated>>
    /\ UNCHANGED <<installVars, retVars, codecVars>>

InitWait ==
    /\ InstallIdle /\ RetryIdle /\ CodecIdle
    /\ target \in Targets
    /\ procs = <<>>
    /\ alive = {}
    /\ checks = 0
    /\ naps = 0
    /\ still_running = {}
    /\ kill_outcomes = <<>>
    /\ terminated = {}
    /\ wres = "none"
    /\ pc = "wait_call"

NextWait ==
    \/ WaitCall
    \/ LivenessCheck
    \/ Nap
    \/ KillPass
    \/ Prompt
    \/ Sleep
    \/ WaitReturns

SpecWait == InitWait /\ [][NextWait]_vars

\* wait_or_kill has not polled, slept or tried to terminate anything.
NothingDone ==
    /\ checks = 0
    /\ naps = 0
    /\ task = "none" /\ invoked = <<>> /\ sleeps = <<>>
    /\ kill_outcomes = <<>>
    /\ terminated = {}
    /\ alive = DOMAIN procs

\* C18: wait_or_kill for a target whose file name matches no running
\* process returns success immediately: no liveness poll, no sleep, no
\* termination attempt.  A target path with no file name returns an error
\* before any process is enumerated.
C18_NoMatchReturnsAtOnce ==
    /\ (procs # <<>> /\ TargetProcesses = {}) =>
          /\ pc = "wait_returned"
          /\ wres = "Ok"
          /\ NothingDone
    /\ (target # "none" /\ file_name(target) = "" /\ pc # "wait_call") =>
          /\ pc = "wait_returned"
          /\ wres = "ErrNoFileName"
          /\ procs = <<>>
          /\ NothingDone

\* C18's case: the snapshot holds processes, none of them named like the
\* target, and wait_or_kill has returned.
C18_Witness ==
    /\ target = TargetPath
    /\ procs # <<>>
    /\ \A pid \in DOMAIN procs : procs[pid].name = "explorer.exe"
    /\ wres = "Ok"

\* The wait loop is over: util::retry was called for the escalation.
Escalating == task = KillTask

\* C19: the wait loop makes at most 60 liveness checks separated by 500 ms
\* sleeps (at most 59 sleeps), ends at the first check that finds no target
\* process running or at the 60th check whatever its outcome, and
\* termination is then attempted only on the processes still running at the
\* last check, so none is attempted when all exited naturally.
C19_WaitThenEscalate ==
    target # "none" =>
        /\ checks <= 60
        /\ naps <= 59
        /\ pc = "wait_loop" => naps = checks /\ ~Escalating
        /\ pc = "wait_nap" =>
              /\ naps = checks - 1
              /\ still_running # {}
              /\ checks < 60
              /\ ~Escalating
        /\ Escalating =>
              /\ checks >= 1
              /\ naps = checks - 1
              /\ still_running = {} \/ checks = 60
        /\ (kill_outcomes # <<>> \/ terminated # {} \/ invoked # <<>>) =>
              Escalating
        /\ DOMAIN kill_outcomes \subseteq still_running
        /\ terminated \subseteq still_running
        /\ still_running \subseteq TargetProcesses
        /\ (Escalating /\ still_running = {}) =>
              /\ terminated = {}
              /\ kill_outcomes = <<>>
              /\ Len(invoked) <= 1
              /\ wres \in {"none", "Ok"}

\* C19's case: a process was still running at the 60th check and was
\* terminated then.
C19_Witness ==
    /\ checks = 60
    /\ naps = 59
    /\ terminated # {}
    /\ wres = "Ok"

\* C20: during escalation a process is terminated only if its own full
\* module path equals the target's path exactly: a process with the same
\* executable name at another path is never terminated and counts as
\* success, an access-denied error when opening a process counts as
\* success, and any other open or path-query failure is an error that makes
\* the whole escalation step be retried by the retry policy.
C20_KillOnlyExactPath ==
    target # "none" =>
        /\ \A pid \in terminated : procs[pid].path = target
        /\ \A pid \in DOMAIN procs :
              procs[pid].path # target => pid \notin terminated
        /\ \A pid \in DOMAIN kill_outcomes :
              /\ kill_outcomes[pid] = "terminated" =>
                    procs[pid].path = target /\ pid \in terminated
              /\ kill_outcomes[pid] = "other_path" =>
                    /\ procs[pid].path # target
                    /\ procs[pid].name = file_name(target)
                    /\ pid \notin terminated
        /\ (Escalating /\ invoked # <<>>) =>
              /\ LastInvoked.ok <=>
                    \A pid \in DOMAIN kill_outcomes :
                       kill_outcomes[pid] \in
                          {"terminated", "other_path", "access_denied"}
              /\ ~LastInvoked.ok =>
                    \/ pc \in {"retry_sleep", "retry_prompt", "retry_invoke"}
                    \/ answers # <<>> /\ answers[Len(answers)] = "Cancel"
              /\ DOMAIN kill_outcomes = still_running
        /\ wres = "Err" => answers # <<>> /\ answers[Len(answers)] = "Cancel"

\* C20's case: one pass met a same-named process at another path and an
\* access-denied process and succeeded; an earlier pass had failed and was
\* retried.
C20_Witness ==
    /\ wres = "Ok"
    /\ Len(invoked) >= 2
    /\ \E pid \in DOMAIN kill_outcomes : kill_outcomes[pid] = "other_path"
    /\ \E pid \in DOMAIN kill_outcomes : kill_outcomes[pid] = "access_denied"

-----------------------------------------------------------------------------
(* The two clean-ups of the modern strategy *)

\* What the claim says remove_files leaves: the executable, its manifest,
\* the root's unins* and bootstrap entries, the commit's and the bootstrap
\* folder with all they hold, and the bin folder's files but the old_ ones.
GcKeeps(p) ==
    \/ p.dir = "root" /\ p \in {Exe, Manifest}
    \/ p.dir = "root" /\ p.prefix = "unins"
    \/ p.dir = "root" /\ p.prefix = "" /\ p.base = "bootstrap"
    \/ p.dir \in {CommitName, "bootstrap"}
    \/ p.dir = "bin" /\ p.prefix # "old_"

\* C21: remove_files runs only when a commit is supplied, and when it
\* succeeds the install root holds exactly the live executable, the
\* manifest, the unins* entries, the commit's directory, the bootstrap
\* entry and the bin folder without its old_ files: these are untouched and
\* every other top-level file and directory is removed.
C21_GarbageCollectionKeepsExactly ==
    /\ \A c \in {"none", CommitName} :
          CleanupKind(c) = "remove_files" <=> c # "none"
    /\ (dkind = "remove_files" /\ pc = "del_returned" /\ dres = "Ok") =>
          /\ commit = CommitName
          /\ \A p \in InstallPaths :
                fs[p] = IF GcKeeps(p) THEN pre[p] ELSE Absent
          /\ dirs = InitialDirs(pre) \cap {CommitName, "bootstrap", "bin"}

\* C21's case: the root held a stray file, the bin folder an old_ file
\* beside a live one, and there were a tools, a res and a bootstrap folder;
\* the garbage collection succeeded.
C21_Witness ==
    /\ dkind = "remove_files" /\ pc = "del_returned" /\ dres = "Ok"
    /\ exists(pre, Readme) /\ ~exists(fs, Readme)
    /\ exists(pre, old_(BinFile(BinPool[1])))
    /\ ~exists(fs, old_(BinFile(BinPool[1])))
    /\ exists(fs, BinFile(BinPool[1]))
    /\ exists(pre, ToolsFile) /\ "tools" \notin dirs
    /\ exists(pre, ResFile) /\ "res" \notin dirs
    /\ exists(fs, BootstrapFile) /\ exists(fs, CommitFile)
    /\ exists(fs, Exe) /\ exists(fs, Manifest) /\ exists(fs, Unins)

\* The root's regular files whose extension is "dll" in some letter case
RootDllFiles == {Ffmpeg, LibDll}

\* C22: cleanup_dll_files runs only when no commit is supplied.  With
\* ffmpeg.dll in the install root, a successful call has deleted every
\* regular file of the root whose extension is "dll" in any letter case,
\* ffmpeg.dll included; no other file and no subdirectory is ever touched.
\* Without ffmpeg.dll the call deletes nothing and returns success.
C22_DllCleanup ==
    /\ \A c \in {"none", CommitName} :
          CleanupKind(c) = "cleanup_dll_files" <=> c = "none"
    /\ dkind = "cleanup_dll_files" =>
          /\ \A p \in InstallPaths \ RootDllFiles : fs[p] = pre[p]
          /\ \A i \in DOMAIN handles : handles[i].path \in RootDllFiles
          /\ dirs = InitialDirs(pre)
          /\ rmdirs = <<>>
          /\ ~exists(pre, Ffmpeg) =>
                /\ pc = "del_returned" /\ dres = "Ok"
                /\ fs = pre
                /\ handles = <<>>
          /\ (exists(pre, Ffmpeg) /\ dres = "Ok") =>
                \A p \in RootDllFiles : ~exists(fs, p)

\* C22's case: ffmpeg.dll, LIBRARY.DLL, a text file and a DLL in a
\* subdirectory were there; the clean-up succeeded.
C22_Witness ==
    /\ dkind = "cleanup_dll_files" /\ pc = "del_returned" /\ dres = "Ok"
    /\ exists(pre, Ffmpeg) /\ ~exists(fs, Ffmpeg)
    /\ exists(pre, LibDll) /\ ~exists(fs, LibDll)
    /\ exists(fs, Readme) /\ exists(fs, ResDll)

-----------------------------------------------------------------------------
(* Bytes, 32-bit words and CRC-32 *)

\* A u32 is kept as its two 16-bit halves, so that every value of the type
\* is there: [hi |-> 65535, lo |-> 65535] is 0xFFFFFFFF.
U32(hi, lo) == [hi |-> hi, lo |-> lo]

\* `x as u32` for a small non-negative x
to_u32(x) == U32(x \div 65536, x % 65536)

\* `x as usize` for a u32 below 2^31
to_usize(u) == u.hi * 65536 + u.lo

u32_gt(a, b) == a.hi > b.hi \/ (a.hi = b.hi /\ a.lo > b.lo)

\* `!x` on a u32
not_u32(u) == U32(65535 - u.hi, 65535 - u.lo)

\* byteorder: write_u16 / write_u32 / write_i32 ::<LittleEndian>
write_u16(x) == <<x % 256, x \div 256>>

write_u32(u) == write_u16(u.lo) \o write_u16(u.hi)

write_i32(v) == write_u16(v % 65536) \o write_u16((v \div 65536) % 65536)

\* byteorder: read_u16 / read_u32 / read_i32 ::<LittleEndian> of the bytes
\* b[at + 1 ..]
read_u16(b, at) == b[at + 1] + 256 * b[at + 2]

read_u32(b, at) == U32(read_u16(b, at + 2), read_u16(b, at))

read_i32(b, at) ==
    LET hi == read_u16(b, at + 2)
    IN  (IF hi >= 32768 THEN hi - 65536 ELSE hi) * 65536 + read_u16(b, at)

RECURSIVE XorBits(_, _, _)
XorBits(a, b, n) ==
    IF n = 0 THEN 0
    ELSE ((a + b) % 2) + 2 * XorBits(a \div 2, b \div 2, n - 1)

\* a ^ b on bytes
XorTable == [a \in 0..255 |-> [b \in 0..255 |-> XorBits(a, b, 8)]]

xor8(a, b) == XorTable[a][b]

\* The CRC register is held as its four bytes, lowest first
xor32(u, v) ==
    <<xor8(u[1], v[1]), xor8(u[2], v[2]), xor8(u[3], v[3]), xor8(u[4], v[4])>>

shr1(u) == <<(u[1] \div 2) + 128 * (u[2] % 2),
             (u[2] \div 2) + 128 * (u[3] % 2),
             (u[3] \div 2) + 128 * (u[4] % 2),
             u[4] \div 2>>

\* CRC_32_ISO_HDLC (crc32::IEEE): the reflected polynomial 0xEDB88320
Poly == <<32, 131, 184, 237>>

RECURSIVE TableEntry(_, _)
TableEntry(c, k) ==
    IF k = 0 THEN c
    ELSE TableEntry(IF c[1] % 2 = 1 THEN xor32(Poly, shr1(c)) ELSE shr1(c),
                    k - 1)

CrcTable == [n \in 0..255 |-> TableEntry(<<n, 0, 0, 0>>, 8)]

\* One byte through the register: crc = table[(crc ^ byte) & 0xFF] ^ (crc >> 8)
crc_update(c, byte) ==
    LET t == CrcTable[xor8(c[1], byte)]
    IN  <<xor8(c[2], t[1]), xor8(c[3], t[2]), xor8(c[4], t[3]), t[4]>>

\* The bytes data[lo..hi] through the register, in order.  The left half
\* is computed before the right half starts.
RECURSIVE crc_fold(_, _, _, _)
crc_fold(c, data, lo, hi) ==
    IF lo > hi THEN c
    ELSE IF lo = hi THEN crc_update(c, data[lo])
    ELSE LET mid == (lo + hi) \div 2
             left == crc_fold(c, data, lo, mid)
         IN  IF left[1] >= 0 THEN crc_fold(left, data, mid + 1, hi) ELSE left

\* CRC32.checksum(data) / digest.write(data); digest.sum32(): register
\* preset to 0xFFFFFFFF, result inverted
checksum(data) ==
    LET c == xor32(crc_fold(<<255, 255, 255, 255>>, data, 1, Len(data)),
                   <<255, 255, 255, 255>>)
    IN  U32(c[3] + 256 * c[4], c[1] + 256 * c[2])

Ok(v) == [res |-> "Ok", val |-> v]
Err(msg) == [res |-> "Err", msg |-> msg]
Panic == [res |-> "Panic"]

\* n zero bytes: vec![0; n]
Zeros(n) == [i \in 1..n |-> 0]

\* n copies of a byte
Filled(n, b) == [i \in 1..n |-> b]

-----------------------------------------------------------------------------
(* strings.rs *)

IsCont(b) == b >= 128 /\ b <= 191

\* The length of the UTF-8 sequence a byte starts; 0 for a byte that starts
\* none (a continuation byte, 0xC0, 0xC1, 0xF5..0xFF)
Utf8Len(b) ==
    IF b < 128 THEN 1
    ELSE IF b >= 194 /\ b <= 223 THEN 2
    ELSE IF b >= 224 /\ b <= 239 THEN 3
    ELSE IF b >= 240 /\ b <= 244 THEN 4
    ELSE 0

\* v[i] starts a sequence that is complete, with continuation bytes in
\* their ranges (no overlong form, no surrogate, nothing above U+10FFFF)
Utf8SequenceAt(v, i) ==
    /\ i + Utf8Len(v[i]) - 1 <= Len(v)
    /\ \A k \in 1..(Utf8Len(v[i]) - 1) : IsCont(v[i + k])
    /\ v[i] = 224 => v[i + 1] >= 160
    /\ v[i] = 237 => v[i + 1] <= 159
    /\ v[i] = 240 => v[i + 1] >= 144
    /\ v[i] = 244 => v[i + 1] <= 143

\* String::from_utf8: is v well-formed UTF-8 ?  Every byte starts a
\* well-formed sequence or is a continuation byte of the sequence started
\* one, two or three bytes before it.
Utf8Valid(v) ==
    \A i \in 1..Len(v) :
       IF Utf8Len(v[i]) > 0 THEN Utf8SequenceAt(v, i)
       ELSE \E k \in 1..3 : i - k >= 1 /\ Utf8Len(v[i - k]) > k

\* vec.iter().position(|&x| x == 0): the 0-based index of the first NUL
position_of_nul(vec) ==
    IF \E i \in 1..Len(vec) : vec[i] = 0
    THEN Some((CHOOSE i \in 1..Len(vec) :
                  vec[i] = 0 /\ \A j \in 1..(i - 1) : vec[j] # 0) - 1)
    ELSE None

NoNulDefault_capacity(capacity) == capacity

\* strings.rs:27: .unwrap_or(64), whatever the capacity
NoNulDefault(capacity) == 64

\* strings.rs:17-31: read_utf8_string(reader, capacity) on the bytes
\* b[at + 1 ..]; a String is kept as its UTF-8 bytes
read_utf8_string(b, at, capacity) ==
    IF Len(b) < at + capacity THEN Err("IOError")
    ELSE LET vec == SubSeq(b, at + 1, at + capacity)
             pos == unwrap_or(position_of_nul(vec), NoNulDefault(capacity))
             bar == SubSeq(vec, 1, pos)
         IN  IF Utf8Valid(bar) THEN Ok(bar) ELSE Err("UTF8Error")

\* strings.rs:33-45: write_utf8_string(writer, string, capacity); the
\* subtraction capacity - bytes.len() overflows when the string is longer
write_utf8_string(string, capacity) ==
    IF Len(string) > capacity THEN Panic
    ELSE Ok(string \o Zeros(capacity - Len(string)))

-----------------------------------------------------------------------------
(* model/header.rs *)

HEADER_SIZE == 448

\* "Inno Setup Uninstall Log (b)"
HEADER_ID_32 ==
    <<73, 110, 110, 111, 32, 83, 101, 116, 117, 112, 32, 85, 110, 105, 110,
      115, 116, 97, 108, 108, 32, 76, 111, 103, 32, 40, 98, 41>>

\* "Inno Setup Uninstall Log (b) 64-bit"
HEADER_ID_64 == HEADER_ID_32 \o <<32, 54, 52, 45, 98, 105, 116>>

HIGHEST_SUPPORTED_VERSION == 1048

\* `read_i32()? as usize` (header.rs:106-108): a negative count
\* sign-extends to a value beyond the integers of the model and is kept
\* as what it is the cast of
i32_as_usize(i) == IF i >= 0 THEN i ELSE <<"usize of", i>>

CrcMatches_unchecked(buf, crc) == TRUE

\* header.rs:124: CRC32.checksum(&buf[..HEADER_SIZE - 4]) != crc
CrcMatches(buf, crc) == checksum(SubSeq(buf, 1, HEADER_SIZE - 4)) = crc

\* header.rs:90-148: Header::from_reader
Header_from_reader(stream) ==
    IF Len(stream) < HEADER_SIZE THEN Err("Failed to read header to buffer")
    ELSE
    LET buf == SubSeq(stream, 1, HEADER_SIZE)
        id == read_utf8_string(buf, 0, 64)
        app_id == read_utf8_string(buf, 64, 128)
        app_name == read_utf8_string(buf, 192, 128)
        version == read_i32(buf, 320)
        num_recs == i32_as_usize(read_i32(buf, 324))
        end_offset == read_u32(buf, 328)
        flags == read_u32(buf, 332)
        crc == read_u32(buf, 444)
    IN  IF id.res # "Ok" THEN Err("Failed to parse header ID")
        ELSE IF app_id.res # "Ok" THEN Err("Failed to parse header app ID")
        ELSE IF app_name.res # "Ok" THEN Err("Failed to parse header app name")
        ELSE IF ~CrcMatches(buf, crc) THEN Err("CRC32 check failed")
        ELSE IF id.val \notin {HEADER_ID_32, HEADER_ID_64}
             THEN Err("Invalid header ID")
        ELSE IF version > HIGHEST_SUPPORTED_VERSION
             THEN Err("Header version not supported")
        ELSE Ok([id |-> id.val, app_id |-> app_id.val,
                 app_name |-> app_name.val, version |-> version,
                 num_recs |-> num_recs, end_offset |-> end_offset,
                 flags |-> flags, crc |-> crc])

\* header.rs:150-196: Header::to_writer
Header_to_writer(h) ==
    LET id == write_utf8_string(h.id, 64)
        app_id == write_utf8_string(h.app_id, 128)
        app_name == write_utf8_string(h.app_name, 128)
    IN  IF id.res = "Panic" \/ app_id.res = "Panic" \/ app_name.res = "Panic"
        THEN Panic
        ELSE LET buf == id.val \o app_id.val \o app_name.val
                        \o write_i32(h.version) \o write_i32(h.num_recs)
                        \o write_u32(h.end_offset) \o write_u32(h.flags)
                        \o Zeros(108)
             IN  Ok(buf \o write_u32(checksum(buf)))

-----------------------------------------------------------------------------
(* blockio.rs *)

BLOCK_MAX_SIZE == 4096

Min(a, b) == IF a <= b THEN a ELSE b

\* The rest of a sequence after its first n elements
Drop(sq, n) == SubSeq(sq, n + 1, Len(sq))

\* blockio.rs:22-29: BlockRead::new(reader); `buffer` holds the payload of
\* the block read last, `reader` what the underlying reader has yet to give
BlockRead_new(reader) == [reader |-> reader, buffer |-> <<>>, pos |-> 0,
                          left |-> 0]

IoErr(kind, msg, st) == [res |-> "Err", kind |-> kind, msg |-> msg, st |-> st]

SizeIntact_unchecked(size, not_size) == TRUE

\* blockio.rs:35: size != !not_size
SizeIntact(size, not_size) == size = not_u32(not_size)

\* blockio.rs:30-66: BlockRead::fill_buffer
fill_buffer(st) ==
    IF Len(st.reader) < 12
    THEN IoErr("UnexpectedEof", "failed to fill whole buffer",
               [st EXCEPT !.reader = <<>>])
    ELSE
    LET size == read_u32(st.reader, 0)
        not_size == read_u32(st.reader, 4)
        crc == read_u32(st.reader, 8)
        after == [st EXCEPT !.reader = Drop(st.reader, 12)]
    IN  IF ~SizeIntact(size, not_size)
        THEN IoErr("InvalidData", "Block header size is corrupt", after)
        ELSE IF u32_gt(size, to_u32(BLOCK_MAX_SIZE))
        THEN IoErr("InvalidData", "Block header size is too large", after)
        ELSE IF Len(after.reader) < to_usize(size)
        THEN IoErr("UnexpectedEof", "failed to fill whole buffer",
                   [after EXCEPT !.reader = <<>>])
        ELSE LET buffer == SubSeq(after.reader, 1, to_usize(size))
                 rest == Drop(after.reader, to_usize(size))
             IN  IF checksum(buffer) # crc
                 THEN IoErr("InvalidData", "Block header crc32 check failed",
                            [after EXCEPT !.reader = rest])
                 ELSE [res |-> "Ok",
                       st |-> [reader |-> rest, buffer |-> buffer,
                               pos |-> 0, left |-> to_usize(size)]]

\* blockio.rs:69-94: BlockRead::read(buf) with buf.len() = size, `out` the
\* bytes copied to buf so far.  It returns Ok only with buf filled.
RECURSIVE BlockRead_read(_, _, _)
BlockRead_read(st, size, out) ==
    IF size = 0 THEN [res |-> "Ok", st |-> st, out |-> out]
    ELSE IF st.left = 0
    THEN LET filled == fill_buffer(st)
         IN  IF filled.res = "Ok"
             THEN BlockRead_read(filled.st, size, out)
             ELSE filled @@ [out |-> out]
    ELSE LET count == Min(size, st.left)
             from == SubSeq(st.buffer, st.pos + 1, st.pos + count)
         IN  BlockRead_read([st EXCEPT !.pos = @ + count, !.left = @ - count],
                            size - count, out \o from)

\* blockio.rs:103-109: BlockWrite::new(writer); `buffer` holds buffer[..pos],
\* `writer` what the underlying writer has been given
BlockWrite_new == [writer |-> <<>>, buffer |-> <<>>, pos |-> 0]

FlushesEmpty_always(pos) == FALSE

\* blockio.rs:112-114: if self.pos == 0 { return Ok(()) }
FlushesEmpty(pos) == pos = 0

\* blockio.rs:111-131: BlockWrite::flush_buffer
flush_buffer(st) ==
    IF FlushesEmpty(st.pos) THEN st
    ELSE LET slice == SubSeq(st.buffer, 1, st.pos)
         IN  [writer |-> st.writer \o write_u32(to_u32(st.pos))
                           \o write_u32(not_u32(to_u32(st.pos)))
                           \o write_u32(checksum(slice)) \o slice,
              buffer |-> <<>>,
              pos |-> 0]

\* blockio.rs:134-160: BlockWrite::write(buf)
RECURSIVE BlockWrite_write(_, _)
BlockWrite_write(st, buf) ==
    IF Len(buf) = 0 THEN st
    ELSE LET left == BLOCK_MAX_SIZE - st.pos
             count == Min(Len(buf), left)
             copied == [st EXCEPT !.buffer = @ \o SubSeq(buf, 1, count),
                                  !.pos = @ + count]
         IN  BlockWrite_write(IF copied.pos = BLOCK_MAX_SIZE
                              THEN flush_buffer(copied) ELSE copied,
                              Drop(buf, count))

\* blockio.rs:162-165: BlockWrite::flush
BlockWrite_flush(st) == flush_buffer(st)

-----------------------------------------------------------------------------
(* Readers: FileRec::from_reader takes any Read; the program gives it a
   BlockRead (main.rs:45-50), the unit tests a byte slice *)

SliceReader(data) == [kind |-> "slice", rest |-> data]
BlockReader(data) == [kind |-> "block", st |-> BlockRead_new(data)]

\* Read::read_exact(&mut buf) with buf.len() = n
read_exact(reader, n) ==
    IF reader.kind = "slice"
    THEN IF Len(reader.rest) < n
         THEN [res |-> "Err", reader |-> [reader EXCEPT !.rest = <<>>]]
         ELSE [res |-> "Ok", out |-> SubSeq(reader.rest, 1, n),
               reader |-> [reader EXCEPT !.rest = Drop(@, n)]]
    ELSE LET r == BlockRead_read(reader.st, n, <<>>)
         IN  IF r.res = "Ok"
             THEN [res |-> "Ok", out |-> r.out,
                   reader |-> [reader EXCEPT !.st = r.st]]
             ELSE [res |-> "Err", reader |-> [reader EXCEPT !.st = r.st]]

-----------------------------------------------------------------------------
(* model/filerec.rs *)

\* filerec.rs:13-31: the discriminants of UninstallRecTyp
UninstallRecTyp ==
    {1, 16, 17, 32, 128, 129, 130, 131, 132, 133, 134, 135, 136, 137, 138,
     139, 140}

\* filerec.rs:33-55: UninstallRecTyp::from matches the 17 values and
\* panics on any other
Recognized(i) == i \in UninstallRecTyp

\* filerec.rs:256: 0x8000000
MaxDataSize == U32(2048, 0)

SizeAllowed_small(data_size) == ~u32_gt(data_size, U32(0, 255))

\* filerec.rs:256: if data_size > 0x8000000 { return Err(..) }
SizeAllowed(data_size) == ~u32_gt(data_size, MaxDataSize)

\* filerec.rs:260-271: the payload has been read; UninstallRecTyp::from
\* converts the discriminant only now
FileRec_after_data(typ, extra_data, data) ==
    IF data.res # "Ok"
    THEN Err("Failed to parse file rec data") @@ [reader |-> data.reader]
    ELSE IF ~Recognized(read_u16(typ.out, 0))
    THEN Panic @@ [reader |-> data.reader]
    ELSE Ok([typ |-> read_u16(typ.out, 0),
             extra_data |-> read_u32(extra_data.out, 0),
             data |-> data.out]) @@ [reader |-> data.reader]

\* filerec.rs:251-263: the payload length has been read
FileRec_after_data_size(typ, extra_data, data_size) ==
    IF data_size.res # "Ok"
    THEN Err("Failed to parse file rec data size")
           @@ [reader |-> data_size.reader]
    ELSE IF ~SizeAllowed(read_u32(data_size.out, 0))
    THEN Err("File rec data size too large") @@ [reader |-> data_size.reader]
    ELSE FileRec_after_data(typ, extra_data,
             read_exact(data_size.reader,
                        to_usize(read_u32(data_size.out, 0))))

\* filerec.rs:248-254: the extra-data has been read, the length is next
FileRec_after_extra_data(typ, extra_data) ==
    IF extra_data.res # "Ok"
    THEN Err("Failed to parse file rec extra data")
           @@ [reader |-> extra_data.reader]
    ELSE FileRec_after_data_size(typ, extra_data,
                                 read_exact(extra_data.reader, 4))

\* filerec.rs:245-250: the discriminant has been read, the extra-data is next
FileRec_after_typ(typ) ==
    IF typ.res # "Ok"
    THEN Err("Failed to parse file rec typ") @@ [reader |-> typ.reader]
    ELSE FileRec_after_extra_data(typ, read_exact(typ.reader, 4))

\* filerec.rs:244-272: FileRec::from_reader
FileRec_from_reader(reader) == FileRec_after_typ(read_exact(reader, 2))

\* filerec.rs:274-292: FileRec::to_writer; `self.data.len() as u32`
FileRec_to_writer(rec) ==
    write_u16(rec.typ) \o write_u32(rec.extra_data)
      \o write_u32(to_u32(Len(rec.data))) \o rec.data

\* str::encode_utf16 of a String kept as its chars (Unicode scalar values)
RECURSIVE encode_utf16(_)
encode_utf16(string) ==
    IF string = <<>> THEN <<>>
    ELSE LET c == Head(string)
         IN  (IF c < 65536 THEN <<c>>
              ELSE <<55296 + ((c - 65536) \div 1024),
                     56320 + ((c - 65536) % 1024)>>)
               \o encode_utf16(Tail(string))

IsHighSurrogate(u) == u >= 55296 /\ u <= 56319
IsLowSurrogate(u) == u >= 56320 /\ u <= 57343

\* String::from_utf16: an unpaired surrogate is an error
RECURSIVE from_utf16(_)
from_utf16(u16data) ==
    IF u16data = <<>> THEN Ok(<<>>)
    ELSE LET u == Head(u16data)
         IN  IF IsLowSurrogate(u) THEN Err("FromUtf16Error")
             ELSE IF IsHighSurrogate(u)
             THEN IF Len(u16data) >= 2 /\ IsLowSurrogate(u16data[2])
                  THEN LET rest == from_utf16(Drop(u16data, 2))
                           c == 65536 + (u - 55296) * 1024
                                  + (u16data[2] - 56320)
                       IN  IF rest.res = "Ok" THEN Ok(<<c>> \o rest.val)
                           ELSE rest
                  ELSE Err("FromUtf16Error")
             ELSE LET rest == from_utf16(Tail(u16data))
                  IN  IF rest.res = "Ok" THEN Ok(<<u>> \o rest.val) ELSE rest

\* LittleEndian::write_u16_into / read_u16_into
RECURSIVE write_u16_into(_)
write_u16_into(u16data) ==
    IF u16data = <<>> THEN <<>>
    ELSE write_u16(Head(u16data)) \o write_u16_into(Tail(u16data))

read_u16_into(b, at, n) == [i \in 1..n |-> read_u16(b, at + 2 * (i - 1))]

\* filerec.rs:116: assert_eq!(size % 2, 0)
SizeIsEven(size) == size % 2 = 0

IsNonZero_always(size) == TRUE

\* filerec.rs:113-115: let size = -size as usize; if size > 0 { .. }
IsNonZero(size) == size # 0

\* i32::MIN: `-size` overflows (a panic in a debug build; in a release
\* build it wraps to a usize that is even and too large for the vec!)
MinI32 == -2147483647 - 1

\* filerec.rs:96-136: decode_strings; `at` bytes of data are consumed and
\* `strings` holds the strings pushed so far.  `-size as usize` of a
\* positive size is 2^64 - size (2^32 - size on a 32-bit build): as odd or
\* even as size, and when even, too large for vec![0; size / 2], which
\* panics with a capacity overflow.  So does i32::MIN in every build.
RECURSIVE decode_from(_, _, _)
decode_from(data, at, strings) ==
    IF Len(data) < at + 1
    THEN Err("Failed to parse file rec string header")
    ELSE LET byte_result == data[at + 1]
         IN  IF byte_result <= 253
             THEN Err("Invalid file rec string header")
             ELSE IF byte_result = 255
             THEN IF Len(data) > at + 1
                  THEN Err("Invalid file rec string header length")
                  ELSE Ok(strings)
             ELSE IF Len(data) < at + 5
             THEN Err("Failed to parse file rec string size")
             ELSE LET size == read_i32(data, at + 1)
                  IN  IF ~IsNonZero(size)
                      THEN decode_from(data, at + 5, strings)
                      ELSE IF size = MinI32 THEN Panic
                      ELSE IF ~SizeIsEven(size) THEN Panic
                      ELSE IF size > 0 THEN Panic
                      ELSE IF Len(data) < at + 5 - size
                      THEN Err("Failed to parse file rec data string")
                      ELSE LET string ==
                                 from_utf16(read_u16_into(data, at + 5,
                                                          (-size) \div 2))
                           IN  IF string.res # "Ok"
                               THEN Err("Failed to parse file rec data string")
                               ELSE decode_from(data, at + 5 - size,
                                                Append(strings, string.val))

decode_strings(data) == decode_from(data, 0, <<>>)

\* filerec.rs:157-186: encode_strings
RECURSIVE encode_strings(_)
encode_strings(strings) ==
    IF strings = <<>> THEN <<255>>
    ELSE LET u16data == encode_utf16(Head(strings))
             size == Len(u16data) * 2
         IN  <<254>> \o write_i32(-size) \o write_u16_into(u16data)
               \o encode_strings(Tail(strings))

-----------------------------------------------------------------------------
(* main.rs: read_file *)

\* main.rs:47-50: for _ in 0..header.num_recs { recs.push(from_reader?) }
RECURSIVE read_recs(_, _, _)

\* main.rs:49: recs.push(FileRec::from_reader(&mut reader)?), from_reader
\* having returned `rec`
push_rec(rec, n, recs) ==
    IF rec.res = "Ok" THEN read_recs(rec.reader, n - 1, Append(recs, rec.val))
    ELSE IF rec.res = "Panic" THEN Panic
    ELSE Err(rec.msg)

read_recs(reader, n, recs) ==
    IF n = 0 THEN Ok(recs) ELSE push_rec(FileRec_from_reader(reader), n, recs)

\* main.rs:52: Ok((header, recs)), the loop having returned `recs`
read_file_result(header, recs) ==
    IF recs.res = "Ok" THEN Ok([header |-> header.val, recs |-> recs.val])
    ELSE recs

\* main.rs:43-52: read_file once Header::from_reader has returned `header`
read_file_after(header, file) ==
    IF header.res # "Ok" THEN header
    ELSE read_file_result(header,
             read_recs(BlockReader(Drop(file, HEADER_SIZE)),
                       header.val.num_recs, <<>>))

\* main.rs:40-53: read_file, on the bytes of the file
read_file(file) == read_file_after(Header_from_reader(file), file)

-----------------------------------------------------------------------------
(* SpecHeader: a header is written, the bytes are kept or damaged, and the
   file is read back *)

\* "{Code}" and "Codé" (the last char takes two bytes in UTF-8)
SampleAppId == <<123, 67, 111, 100, 101, 125>>
SampleAppName == <<67, 111, 100, 195, 169>>

\* "Inno Setup Uninstall Log (c)": no recognized identifier
UnknownId == [HEADER_ID_32 EXCEPT ![27] = 99]

\* The lengths of the strings tried in the 128-byte fields
FieldLengths == {0, 1, 63, 64, 65, 127, 128}

AppIds == {Filled(n, 65) : n \in FieldLengths} \cup {SampleAppId}

AppNames == {SampleAppName, <<>>, Filled(128, 66)}

NewHeader(id, app_id, app_name, version, num_recs, end_offset, flags) ==
    [id |-> id, app_id |-> app_id, app_name |-> app_name,
     version |-> version, num_recs |-> num_recs, end_offset |-> end_offset,
     flags |-> flags]

\* Headers Header::from_reader has to accept
AcceptableHeaders ==
    {NewHeader(id, app_id, app_name, version, 0, end_offset, U32(32768, 1)) :
        id \in {HEADER_ID_32, HEADER_ID_64},
        app_id \in AppIds,
        app_name \in AppNames,
        version \in {HIGHEST_SUPPORTED_VERSION, -1},
        end_offset \in {U32(0, 448), U32(65535, 65535)}}
      \cup {NewHeader(HEADER_ID_32, SampleAppId, SampleAppName, 47, 2,
                      U32(0, 448), U32(0, 0))}

\* Headers it has to reject although their CRC is right
RejectedHeaders ==
    {NewHeader(UnknownId, SampleAppId, SampleAppName, 47, 0, U32(0, 448),
               U32(0, 0)),
     NewHeader(<<>>, SampleAppId, SampleAppName, 47, 0, U32(0, 448),
               U32(0, 0)),
     NewHeader(HEADER_ID_64, SampleAppId, SampleAppName,
               HIGHEST_SUPPORTED_VERSION + 1, 0, U32(0, 448), U32(0, 0))}

\* The headers whose bytes are damaged: one of each identifier
DamagedHeaders ==
    {NewHeader(HEADER_ID_32, SampleAppId, SampleAppName, 47, 0, U32(0, 448),
               U32(0, 0)),
     NewHeader(HEADER_ID_64, <<>>, Filled(128, 66),
               HIGHEST_SUPPORTED_VERSION, 0, U32(65535, 65535),
               U32(32768, 1))}

\* The bits of the first HEADER_SIZE - 4 bytes, numbered from 0
CheckedBits == 0..((HEADER_SIZE - 4) * 8 - 1)

\* buf with bit k inverted
FlipBit(buf, k) ==
    [buf EXCEPT ![(k \div 8) + 1] = xor8(@, 2 ^ (k % 8))]

InitHeader ==
    /\ InstallIdle /\ RetryIdle /\ ProcIdle /\ BlockIdle
    /\ value \in AcceptableHeaders \cup RejectedHeaders \cup DamagedHeaders
    /\ bytes = <<>>
    /\ fault = NoFault
    /\ decoded = NotDecoded
    /\ pc = "hdr_write"

\* header.to_writer(&mut output)
WriteHeader ==
    /\ pc = "hdr_write"
    /\ bytes' = Header_to_writer(value).val
    /\ pc' = "hdr_stored"
    /\ UNCHANGED <<value, fault, decoded, bw, br>>
    /\ UNCHANGED <<installVars, retVars, procVars>>

\* One bit of the stored header's first 444 bytes changes
DamageBit ==
    /\ pc = "hdr_stored"
    /\ value \in DamagedHeaders
    /\ \E k \in CheckedBits :
         /\ bytes' = FlipBit(bytes, k)
         /\ fault' = [kind |-> "flip", bit |-> k]
    /\ pc' = "hdr_damaged"
    /\ UNCHANGED <<value, decoded, bw, br>>
    /\ UNCHANGED <<installVars, retVars, procVars>>

\* The file is cut short
Truncate ==
    /\ pc = "hdr_stored"
    /\ value \in DamagedHeaders
    /\ \E n \in {0, HEADER_SIZE - 1} :
         /\ bytes' = SubSeq(bytes, 1, n)
         /\ fault' = [kind |-> "truncate", len |-> n]
    /\ pc' = "hdr_damaged"
    /\ UNCHANGED <<value, decoded, bw, br>>
    /\ UNCHANGED <<installVars, retVars, procVars>>

\* main.rs:40-53: read_file, with what its Header::from_reader returned
ReadHeader ==
    /\ pc \in {"hdr_stored", "hdr_damaged"}
    /\ LET header == Header_from_reader(bytes)
       IN  decoded' = [header |-> header,
                       file |-> read_file_after(header, bytes)]
    /\ pc' = "hdr_read"
    /\ UNCHANGED <<value, bytes, fault, bw, br>>
    /\ UNCHANGED <<installVars, retVars, procVars>>

NextHeader == WriteHeader \/ DamageBit \/ Truncate \/ ReadHeader

SpecHeader == InitHeader /\ [][NextHeader]_vars

HeaderRead == pc = "hdr_read"

BitFlipped == HeaderRead /\ fault.kind = "flip"

\* The three string fields of the bytes read, each up to its first NUL or
\* else whole, are well-formed UTF-8
StringFieldsWellFormed ==
    \A f \in {<<0, 64>>, <<64, 128>>, <<192, 128>>} :
       LET field == SubSeq(bytes, f[1] + 1, f[1] + f[2])
           nul == position_of_nul(field)
       IN  Utf8Valid(SubSeq(field, 1, IF nul.some THEN nul.n ELSE f[2]))

\* A header is returned only from bytes with the right CRC, a recognized
\* identifier and a supported version; a header written with another
\* identifier or version is refused; without a header read_file returns
\* the header's error: no header and no records.
HeaderOnlyIfValid ==
    HeaderRead =>
       /\ decoded.header.res = "Ok" =>
             /\ read_u32(bytes, HEADER_SIZE - 4)
                  = checksum(SubSeq(bytes, 1, HEADER_SIZE - 4))
             /\ decoded.header.val.id \in {HEADER_ID_32, HEADER_ID_64}
             /\ decoded.header.val.version <= HIGHEST_SUPPORTED_VERSION
       /\ (value.id \notin {HEADER_ID_32, HEADER_ID_64}
             \/ value.version > HIGHEST_SUPPORTED_VERSION
             \/ fault.kind # "none") =>
             decoded.header.res = "Err"
       /\ decoded.header.res = "Err" =>
             /\ decoded.file = decoded.header
             /\ DOMAIN decoded.file = {"res", "msg"}
       /\ value \in RejectedHeaders =>
             decoded.header.msg \in {"Invalid header ID",
                                     "Header version not supported"}

FitsFields(h) ==
    /\ Len(h.id) <= 64 /\ Len(h.app_id) <= 128 /\ Len(h.app_name) <= 128
    /\ \A s \in {h.id, h.app_id, h.app_name} : \A i \in 1..Len(s) : s[i] # 0

\* C24 (as claimed): Header encoding emits exactly 448 bytes, each string
\* field zero-padded to its width (64, 128, 128), 108 zero reserved bytes
\* and as last word the CRC-32 of the first 444 bytes; decoding those bytes
\* returns the same identifier, app-id, app-name, version, record count,
\* end offset and flags, for every header with a recognized identifier, a
\* supported version and NUL-free strings that fit their fields (app-id
\* and app-name of any length up to 128 bytes).
C24_HeaderRoundTrip ==
    (/\ HeaderRead
     /\ fault.kind = "none"
     /\ value.id \in {HEADER_ID_32, HEADER_ID_64}
     /\ value.version <= HIGHEST_SUPPORTED_VERSION
     /\ FitsFields(value)) =>
        /\ Len(bytes) = 448
        /\ SubSeq(bytes, 1, 64) = value.id \o Zeros(64 - Len(value.id))
        /\ SubSeq(bytes, 65, 192)
             = value.app_id \o Zeros(128 - Len(value.app_id))
        /\ SubSeq(bytes, 193, 320)
             = value.app_name \o Zeros(128 - Len(value.app_name))
        /\ SubSeq(bytes, 337, 444) = Zeros(108)
        /\ read_u32(bytes, 444) = checksum(SubSeq(bytes, 1, 444))
        /\ decoded.header.res = "Ok"
        /\ \A f \in DOMAIN value : decoded.header.val[f] = value[f]

-----------------------------------------------------------------------------
(* SpecBlock: bytes are written through a BlockWrite in chunks and flushed;
   the output, kept or damaged, is read through a BlockRead in chunks *)

\* The lengths of the byte sequences written: none, one byte, one block,
\* one block and a byte, two blocks and a byte
DataLengths ==
    {0, 1, BLOCK_MAX_SIZE, BLOCK_MAX_SIZE + 1, 2 * BLOCK_MAX_SIZE + 1}

\* The sizes of the slices given to write and to read
WriteChunks == {1500, BLOCK_MAX_SIZE, BLOCK_MAX_SIZE + 1, 3 * BLOCK_MAX_SIZE}
ReadChunks == {1500, BLOCK_MAX_SIZE, BLOCK_MAX_SIZE + 1}

\* The bytes written: no two blocks alike, no block periodic
Data(len) == [i \in 1..len |-> (i + (i \div 256)) % 256]

\* The length of the data whose output is damaged before it is read
DamagedLength == BLOCK_MAX_SIZE + 1

\* Where block b starts in an output whose earlier blocks are full
BlockStart(b) == (b - 1) * (12 + BLOCK_MAX_SIZE)

\* What is done to block b of the output: one bit of its length, of its
\* second word, of its CRC or of its payload is inverted, or its length is
\* set to 4097 with its second word the complement of that
BlockFaults ==
    {[kind |-> k, block |-> b] :
        k \in {"size", "not_size", "oversize", "crc", "payload"},
        b \in {1, 2}}

Damaged(b, f) ==
    LET at == BlockStart(f.block)
    IN  CASE f.kind = "size" -> FlipBit(b, at * 8)
          [] f.kind = "not_size" -> FlipBit(b, (at + 4) * 8 + 9)
          [] f.kind = "crc" -> FlipBit(b, (at + 8) * 8 + 31)
          [] f.kind = "payload" -> FlipBit(b, (at + 12) * 8 + 3)
          [] f.kind = "oversize" ->
               [i \in 1..Len(b) |->
                   IF i > at /\ i <= at + 8
                   THEN (write_u32(to_u32(BLOCK_MAX_SIZE + 1))
                           \o write_u32(not_u32(to_u32(BLOCK_MAX_SIZE + 1))))
                          [i - at]
                   ELSE b[i]]

InitBlock ==
    /\ InstallIdle /\ RetryIdle /\ ProcIdle
    /\ \E len \in DataLengths : value = [kind |-> "data", len |-> len]
    /\ bytes = <<>>
    /\ fault = NoFault
    /\ decoded = NotDecoded
    /\ bw = [kind |-> "BlockWrite", st |-> BlockWrite_new, done |-> 0]
    /\ br = [kind |-> "none"]
    /\ pc = "blk_write"

\* writer.write_all(chunk): BlockWrite::write takes the whole slice
Write ==
    /\ pc = "blk_write"
    /\ bw.done < value.len
    /\ \E chunk \in WriteChunks :
         LET n == Min(chunk, value.len - bw.done)
             buf == SubSeq(Data(value.len), bw.done + 1, bw.done + n)
         IN  bw' = [bw EXCEPT !.st = BlockWrite_write(@, buf),
                              !.done = @ + n]
    /\ UNCHANGED <<pc, value, bytes, fault, decoded, br>>
    /\ UNCHANGED <<installVars, retVars, procVars>>

\* writer.flush() after the last write
Flush ==
    /\ pc = "blk_write"
    /\ bw.done = value.len
    /\ bw' = [bw EXCEPT !.st = BlockWrite_flush(@)]
    /\ bytes' = bw'.st.writer
    /\ pc' = "blk_flushed"
    /\ UNCHANGED <<value, fault, decoded, br>>
    /\ UNCHANGED <<installVars, retVars, procVars>>

\* writer.flush() once more: the buffer is empty
FlushAgain ==
    /\ pc = "blk_flushed"
    /\ bw' = [bw EXCEPT !.st = BlockWrite_flush(@)]
    /\ bytes' = bw'.st.writer
    /\ pc' = "blk_file"
    /\ UNCHANGED <<value, fault, decoded, br>>
    /\ UNCHANGED <<installVars, retVars, procVars>>

\* BlockRead::new on the output as it was written
Open ==
    /\ pc = "blk_file"
    /\ br' = [kind |-> "BlockRead", st |-> BlockRead_new(bytes)]
    /\ decoded' = [res |-> "Ok", out |-> <<>>, asked |-> 0]
    /\ pc' = "blk_read"
    /\ UNCHANGED <<value, bytes, fault, bw>>
    /\ UNCHANGED <<installVars, retVars, procVars>>

\* BlockRead::new on the output with one of its blocks damaged
OpenDamaged ==
    /\ pc = "blk_file"
    /\ value.len = DamagedLength
    /\ \E f \in BlockFaults :
         /\ fault' = f
         /\ bytes' = Damaged(bytes, f)
         /\ br' = [kind |-> "BlockRead",
                   st |-> BlockRead_new(Damaged(bytes, f))]
    /\ decoded' = [res |-> "Ok", out |-> <<>>, asked |-> 0]
    /\ pc' = "blk_read"
    /\ UNCHANGED <<value, bw>>
    /\ UNCHANGED <<installVars, retVars, procVars>>

\* reader.read(&mut buf) with a buf of one of the chunk sizes, or of what
\* is left of the data
Read ==
    /\ pc = "blk_read"
    /\ \E size \in ReadChunks \cup ({value.len - Len(decoded.out)} \ {0}) :
         LET r == BlockRead_read(br.st, size, <<>>)
         IN  /\ br' = [br EXCEPT !.st = r.st]
             /\ IF r.res = "Ok"
                THEN /\ decoded' = [decoded EXCEPT !.out = @ \o r.out,
                                                   !.asked = @ + size]
                     /\ pc' = pc
                ELSE /\ decoded' = [res |-> "Err", kind |-> r.kind,
                                    msg |-> r.msg, out |-> decoded.out,
                                    partial |-> r.out,
                                    asked |-> decoded.asked + size]
                     /\ pc' = "blk_failed"
    /\ UNCHANGED <<value, bytes, fault, bw>>
    /\ UNCHANGED <<installVars, retVars, procVars>>

NextBlock == Write \/ Flush \/ FlushAgain \/ Open \/ OpenDamaged \/ Read

SpecBlock == InitBlock /\ [][NextBlock]_vars

\* The blocks of an output, read off its bytes from `at` on: each a length
\* word, a second word, a CRC word and as many payload bytes as the length
\* says (or as are left)
RECURSIVE BlocksOf(_, _)
BlocksOf(b, at) ==
    IF Len(b) <= at THEN <<>>
    ELSE LET size == read_u16(b, at) + 65536 * read_u16(b, at + 2)
         IN  <<[size |-> size,
                words |-> SubSeq(b, at + 1, at + 12),
                payload |-> SubSeq(b, at + 13, Min(Len(b), at + 12 + size))]>>
               \o BlocksOf(b, at + 12 + size)

RECURSIVE Payloads(_)
Payloads(blocks) ==
    IF blocks = <<>> THEN <<>>
    ELSE Head(blocks).payload \o Payloads(Tail(blocks))

\* A block as the claim describes it
WellFormedBlock(blk) ==
    /\ blk.size >= 1 /\ blk.size <= 4096
    /\ Len(blk.payload) = blk.size
    /\ \A i \in 1..4 : blk.words[4 + i] = 255 - blk.words[i]
    /\ read_u32(blk.words, 8) = checksum(blk.payload)

\* C25: for any byte sequence written through BlockWrite in any chunking
\* and then flushed, every emitted block has a length between 1 and 4096,
\* every block but the last has length exactly 4096, its second word is the
\* complement of the length and its third the CRC-32 of its payload; a
\* flush with an empty buffer emits no block; and reading the output
\* through BlockRead in any chunking returns exactly the written bytes in
\* order.
C25_BlockRoundTrip ==
    /\ pc = "blk_write" =>
          /\ Len(bw.st.writer) = (bw.done \div 4096) * (12 + 4096)
          /\ bw.st.pos = bw.done % 4096
    /\ pc \in {"blk_flushed", "blk_file"} =>
          LET blocks == BlocksOf(bytes, 0)
          IN  /\ \A i \in DOMAIN blocks : WellFormedBlock(blocks[i])
              /\ \A i \in 1..(Len(blocks) - 1) : blocks[i].size = 4096
              /\ Payloads(blocks) = Data(value.len)
              /\ value.len = 0 => bytes = <<>>
    /\ (pc \in {"blk_read", "blk_failed"} /\ fault.kind = "none") =>
          /\ decoded.out = SubSeq(Data(value.len), 1, Len(decoded.out))
          /\ decoded.res = "Ok" => Len(decoded.out) = decoded.asked
          /\ decoded.res = "Err" => decoded.asked > value.len

\* C25's case: two blocks and a byte were written and flushed, came out as
\* three blocks, and were read back whole.
C25_Witness ==
    /\ pc = "blk_read"
    /\ fault.kind = "none"
    /\ value.len = 2 * BLOCK_MAX_SIZE + 1
    /\ decoded.res = "Ok"
    /\ decoded.out = Data(value.len)
    /\ Len(BlocksOf(bytes, 0)) = 3

\* The data bytes that lie in the blocks before block b
BytesBefore(b) == (b - 1) * 4096

\* C26: BlockRead fails the read with a data-integrity error, delivering no
\* byte of the offending block and attempting no resynchronization, when a
\* block header's length differs from the complement of its second word,
\* when the length exceeds 4096, or when the CRC-32 of the payload differs
\* from the stored CRC; a read past the last block fails instead of
\* returning fewer bytes.
C26_CorruptBlockFailsRead ==
    /\ (pc \in {"blk_read", "blk_failed"} /\ fault.kind # "none") =>
          /\ decoded.res = "Ok" =>
                /\ Len(decoded.out) <= BytesBefore(fault.block)
                /\ Len(decoded.out) = decoded.asked
          /\ decoded.res = "Err" =>
                /\ decoded.asked > BytesBefore(fault.block)
                /\ decoded.kind = "InvalidData"
                /\ decoded.msg =
                     CASE fault.kind \in {"size", "not_size"} ->
                            "Block header size is corrupt"
                       [] fault.kind = "oversize" ->
                            "Block header size is too large"
                       [] OTHER -> "Block header crc32 check failed"
                /\ decoded.out \o decoded.partial
                     = SubSeq(Data(value.len), 1, BytesBefore(fault.block))
                /\ Len(br.st.reader) =
                     Len(bytes) - BlockStart(fault.block) - 12
                       - (IF fault.kind \in {"crc", "payload"}
                          THEN Min(4096, value.len - BytesBefore(fault.block))
                          ELSE 0)
                /\ br.st.left = 0
    /\ (pc = "blk_failed" /\ fault.kind = "none") =>
          /\ decoded.kind = "UnexpectedEof"
          /\ decoded.asked > value.len
          /\ Len(decoded.out) + Len(decoded.partial) <= value.len
    /\ (pc = "blk_read" /\ decoded.res = "Ok") =>
          /\ Len(decoded.out) = decoded.asked
          /\ decoded.asked <= value.len

\* C26's case: the second block's CRC was damaged; the first block was
\* read, and the read that reached the second block failed.
C26_Witness ==
    /\ pc = "blk_failed"
    /\ fault = [kind |-> "crc", block |-> 2]
    /\ decoded.kind = "InvalidData"
    /\ Len(decoded.out) + Len(decoded.partial) = BLOCK_MAX_SIZE
    /\ Len(decoded.out) > 0

-----------------------------------------------------------------------------
(* SpecRecord: a record is written, the bytes are kept or damaged, and a
   record is read from them *)

\* Discriminants UninstallRecTyp::from does not know
UnknownTyps == {0, 2, 141, 65535}

\* "C:\Code\foo", "", "C:\Code" as a path list, an empty payload, the bytes
\* of the unit test (filerec.rs:367-370) and 300 bytes that are no path list
SamplePayloads ==
    {<<>>,
     <<255>>,
     <<254, 252, 255, 255, 72, 0, 101, 0, 108, 0, 108, 0, 111, 0, 255>>,
     Filled(300, 7)}

Records ==
    {[typ |-> typ, extra_data |-> extra_data, data |-> data] :
        typ \in UninstallRecTyp,
        extra_data \in {U32(0, 0), U32(0, 42), U32(65535, 65535)},
        data \in SamplePayloads}

\* The records whose bytes are damaged
DamagedRecords ==
    {rec \in Records :
        rec.typ \in {1, 130} /\ rec.extra_data = U32(0, 42)
          /\ Len(rec.data) \in {0, 15}}

\* What is done to the bytes: the discriminant is replaced, the declared
\* length is replaced, or the stream is cut at `len` bytes
RecordFaults(rec) ==
    {[kind |-> "typ", typ |-> t] : t \in UnknownTyps}
      \cup {[kind |-> "size", size |-> sz] :
              sz \in {MaxDataSize, U32(2048, 1), U32(65535, 65535),
                      to_u32(Len(rec.data) + 1)}}
      \cup {[kind |-> "truncate", len |-> n] :
              n \in {0, 1, 2, 5, 6, 9, 10 + Len(rec.data) - 1}}

DamagedRecord(b, f) ==
    CASE f.kind = "typ" -> write_u16(f.typ) \o Drop(b, 2)
      [] f.kind = "size" -> SubSeq(b, 1, 6) \o write_u32(f.size) \o Drop(b, 10)
      [] f.kind = "truncate" -> SubSeq(b, 1, f.len)

\* The reader FileRec::from_reader is given: the bytes as a slice, or a
\* BlockRead over the bytes written through a BlockWrite
ReaderOver(kind, b) ==
    IF kind = "slice" THEN SliceReader(b)
    ELSE BlockReader(BlockWrite_flush(BlockWrite_write(BlockWrite_new, b))
                       .writer)

InitRecord ==
    /\ InstallIdle /\ RetryIdle /\ ProcIdle /\ BlockIdle
    /\ value \in Records
    /\ bytes = <<>>
    /\ fault = NoFault
    /\ decoded = NotDecoded
    /\ pc = "rec_write"

\* rec.to_writer(&mut buffer)
WriteRecord ==
    /\ pc = "rec_write"
    /\ bytes' = FileRec_to_writer(value)
    /\ pc' = "rec_stored"
    /\ UNCHANGED <<value, fault, decoded, bw, br>>
    /\ UNCHANGED <<installVars, retVars, procVars>>

DamageRecord ==
    /\ pc = "rec_stored"
    /\ value \in DamagedRecords
    /\ \E f \in RecordFaults(value) :
         /\ fault' = f
         /\ bytes' = DamagedRecord(bytes, f)
         /\ bytes' # bytes
    /\ pc' = "rec_damaged"
    /\ UNCHANGED <<value, decoded, bw, br>>
    /\ UNCHANGED <<installVars, retVars, procVars>>

\* FileRec::from_reader(&mut reader)
ReadRecord ==
    /\ pc \in {"rec_stored", "rec_damaged"}
    /\ \E kind \in {"slice", "block"} :
         LET rec == FileRec_from_reader(ReaderOver(kind, bytes))
         IN  decoded' = [r \in DOMAIN rec \ {"reader"} |-> rec[r]]
                          @@ [from |-> kind]
    /\ pc' = "rec_read"
    /\ UNCHANGED <<value, bytes, fault, bw, br>>
    /\ UNCHANGED <<installVars, retVars, procVars>>

NextRecord == WriteRecord \/ DamageRecord \/ ReadRecord

SpecRecord == InitRecord /\ [][NextRecord]_vars

RecordRead == pc = "rec_read"

\* The declared payload length is above 0x8000000, the stream ends before
\* the declared payload is complete, or the discriminant is not recognized
IllFormedRecord == fault.kind \in {"typ", "truncate", "size"}

\* C27 (as claimed): record decoding returns a parse error, never a record
\* and never an abort, when the declared payload length exceeds 0x8000000
\* (exactly 0x8000000 passes the length check), when the stream ends before
\* the declared payload is complete, or when the discriminant is not one of
\* the 17 recognized values.
C27_RecordDecodeNeverAborts ==
    (RecordRead /\ IllFormedRecord) =>
        /\ decoded.res = "Err"
        /\ fault.kind = "size" =>
              (decoded.msg = "File rec data size too large"
                 <=> u32_gt(fault.size, U32(2048, 0)))

\* C28: record encoding is the inverse of record decoding: for every
\* record with a recognized discriminant, any 32-bit extra-data and any
\* payload within the size bound, to_writer emits the 16-bit discriminant,
\* the extra-data, the payload length and the payload bytes verbatim, and
\* from_reader on that output returns a record with the same discriminant,
\* extra-data and payload.
C28_RecordRoundTrip ==
    /\ (pc \in {"rec_stored", "rec_read"} /\ fault.kind = "none") =>
          /\ Len(bytes) = 10 + Len(value.data)
          /\ bytes[1] + 256 * bytes[2] = value.typ
          /\ bytes[3] + 256 * bytes[4] = value.extra_data.lo
          /\ bytes[5] + 256 * bytes[6] = value.extra_data.hi
          /\ bytes[7] + 256 * bytes[8] = Len(value.data)
          /\ bytes[9] = 0 /\ bytes[10] = 0
          /\ \A i \in 1..Len(value.data) : bytes[10 + i] = value.data[i]
    /\ (RecordRead /\ fault.kind = "none") =>
          /\ decoded.res = "Ok"
          /\ decoded.val = value

\* C28's case: a DeleteFile record with extra-data 0xFFFFFFFF and a
\* 300-byte payload came back the same through a BlockRead.
C28_Witness ==
    /\ RecordRead
    /\ fault.kind = "none"
    /\ value.typ = 130
    /\ value.extra_data = U32(65535, 65535)
    /\ Len(value.data) = 300
    /\ decoded.from = "block"
    /\ decoded.res = "Ok" /\ decoded.val = value

-----------------------------------------------------------------------------
(* SpecStrings: a list of strings is encoded, the payload is kept or
   damaged, and decoded *)

\* How many strings a list holds at most
MaxStrings == 2

\* "", "A", "\é", the one char U+1F600 (a surrogate pair in UTF-16), and
\* "A", U+1F600, "\" in one string
SampleStrings == {<<>>, <<65>>, <<92, 233>>, <<128512>>, <<65, 128512, 92>>}

StringLists == UNION {[1..n -> SampleStrings] : n \in 0..MaxStrings}

\* The lists whose payload is damaged: ("A"), and ("\é") with ("A") or alone
DamagedLists == {<<<<65>>>>, <<<<92, 233>>>>}

\* What is done to the payload: the first header byte is replaced, bytes
\* follow the terminator, the terminator is missing, the byte count of
\* the first string is replaced, or the high half of a surrogate pair
\* takes the place of the first UTF-16 unit
StringFaults ==
    {[kind |-> "header", byte |-> b] : b \in {0, 1, 253}}
      \cup {[kind |-> "trailing", byte |-> b] : b \in {0, 254, 255}}
      \cup {[kind |-> "unterminated"]}
      \cup {[kind |-> "count", size |-> sz] :
              sz \in {2, 1, -1, -3, -4, -1000, MinI32}}
      \cup {[kind |-> "surrogate"]}

DamagedStrings(b, f) ==
    CASE f.kind = "header" -> <<f.byte>> \o Tail(b)
      [] f.kind = "trailing" -> b \o <<f.byte>>
      [] f.kind = "unterminated" -> SubSeq(b, 1, Len(b) - 1)
      [] f.kind = "count" -> <<b[1]>> \o write_i32(f.size) \o Drop(b, 5)
      [] f.kind = "surrogate" -> SubSeq(b, 1, 5) \o write_u16(55357)
                                   \o Drop(b, 7)

InitStrings ==
    /\ InstallIdle /\ RetryIdle /\ ProcIdle /\ BlockIdle
    /\ \E xs \in StringLists : value = [kind |-> "strings", xs |-> xs]
    /\ bytes = <<>>
    /\ fault = NoFault
    /\ decoded = NotDecoded
    /\ pc = "str_encode"

\* encode_strings(&strings)
EncodeStrings ==
    /\ pc = "str_encode"
    /\ bytes' = encode_strings(value.xs)
    /\ pc' = "str_encoded"
    /\ UNCHANGED <<value, fault, decoded, bw, br>>
    /\ UNCHANGED <<installVars, retVars, procVars>>

DamageStrings ==
    /\ pc = "str_encoded"
    /\ value.xs \in DamagedLists
    /\ \E f \in StringFaults :
         /\ fault' = f
         /\ bytes' = DamagedStrings(bytes, f)
         /\ bytes' # bytes
    /\ pc' = "str_damaged"
    /\ UNCHANGED <<value, decoded, bw, br>>
    /\ UNCHANGED <<installVars, retVars, procVars>>

\* decode_strings(&data)
DecodeStrings ==
    /\ pc \in {"str_encoded", "str_damaged"}
    /\ decoded' = decode_strings(bytes)
    /\ pc' = "str_decoded"
    /\ UNCHANGED <<value, bytes, fault, bw, br>>
    /\ UNCHANGED <<installVars, retVars, procVars>>

NextStrings == EncodeStrings \/ DamageStrings \/ DecodeStrings

SpecStrings == InitStrings /\ [][NextStrings]_vars

StringsDecoded == pc = "str_decoded"

\* xs without its zero-length strings, the others in their order
WithoutEmpty(xs) == SelectSeq(xs, LAMBDA x : x # <<>>)

\* C29: decode_strings(encode_strings(xs)) equals xs for every sequence xs
\* of non-empty strings, and for a sequence containing zero-length strings
\* it equals xs with the zero-length strings removed, the others in order.
C29_StringsRoundTrip ==
    (StringsDecoded /\ fault.kind = "none") =>
        /\ decoded.res = "Ok"
        /\ decoded.val = WithoutEmpty(value.xs)
        /\ (\A i \in DOMAIN value.xs : value.xs[i] # <<>>) =>
              decoded.val = value.xs

\* C29's case: a list of an empty string and a string with a char beyond
\* the basic plane came back without the empty string.
C29_Witness ==
    /\ StringsDecoded
    /\ fault.kind = "none"
    /\ value.xs = <<<<>>, <<65, 128512, 92>>>>
    /\ decoded = Ok(<<<<65, 128512, 92>>>>)

\* The payload is not well-framed: a header byte other than 0xFE / 0xFF,
\* bytes after the terminator, no terminator, or a byte count that is not
\* the negative of an even number of bytes available in the payload
IllFramed ==
    \/ fault.kind \in {"header", "trailing", "unterminated"}
    \/ fault.kind = "count"
         /\ \/ fault.size > 0
            \/ fault.size % 2 # 0
            \/ fault.size < 6 - Len(bytes)

\* C30 (as claimed): path-list decoding returns a decode error, never a
\* path list and never an abort, for every payload that is not well-framed:
\* an entry header byte other than 0xFE or 0xFF, a 0xFF terminator followed
\* by further bytes, a payload that ends without a terminator, or a byte
\* count that is not the negative of an even number of bytes available in
\* the payload (positive, odd or larger than what remains).
C30_IllFramedPayloadIsDecodeError ==
    (StringsDecoded /\ IllFramed) => decoded.res = "Err"

-----------------------------------------------------------------------------
(* Error and leftover cases of the swaps and of the bulk deletions *)

\* C37 (as claimed): when perform_three_way_rename returns an error, the
\* file at C is never one that the call did not itself move away from C: C
\* is absent or holds what it held before the call, and when C was absent
\* before the call and the rename N -> C failed, C is still absent, also
\* when a leftover old_ file O of an earlier run exists.
C37_ErrorLeavesNoForeignFileAtCurrent ==
    (pc = "returned" /\ result \in RenameErrors) =>
        /\ fs[RC] \in {Absent, pre[RC]}
        /\ (~exists(pre, RC) /\ Attempted(RN, RC, FALSE)) => ~exists(fs, RC)

\* No swap of the modern update reported a failure.
NoSwapFailed ==
    /\ result = "Ok"
    /\ ~ExeSwapFailed
    /\ LogLine("Manifest file update failed", Manifest) \notin log
    /\ \A b \in BinNames : LogLine("Bin file update failed", BinFile(b)) \notin log

\* C38 (as claimed): after a modern update in which no rename failed (and
\* the bin folder was listed, every collected name having been processed),
\* no staged file remains in bin: every new_<name> that was in bin when the
\* update started has become <name>, also when <name> did not exist before.
C38_NoStagedBinFileRemains ==
    (pc = "done" /\ Modern /\ NoSwapFailed
        /\ Started("bin_files")
        /\ \A c \in StagedBinFiles : BinAttempted(c)) =>
        \A b \in BinNames :
            exists(pre, new_(BinFile(b))) =>
                /\ ~exists(fs, new_(BinFile(b)))
                /\ fs[BinFile(b)] = pre[new_(BinFile(b))]

\* C39 (as claimed): every delete-pending handle acquired by
\* delete_existing_version, remove_files or cleanup_dll_files is closed
\* before the function returns, on the success path and on every error
\* path: no acquired or marked handle is left open at return.
C39_NoHandleOpenAtReturn ==
    pc = "del_returned" =>
        \A i \in DOMAIN handles : handles[i].st = "Closed"

-----------------------------------------------------------------------------
(* The legacy strategy's order of steps *)

LegacyOrder ==
    <<"do_update", "move_update", "delete_existing_version", "promote",
      "remove_staging", "patch_uninstdat">>

\* The staging entry that move_update renames to the root path p
StagedTwin(p) == Path(UpdateFolder, p.prefix, p.base)

\* C35: the legacy strategy runs its steps in order, each after the previous
\* one succeeded: promotion starts only when delete_existing_version
\* returned Ok with a handle closed for every file it targets and every
\* targeted top-level directory removed, so a targeted path holds a file
\* only once its staging twin was renamed onto it; the staging directory is
\* removed only after every staging entry was renamed into the root; and
\* the uninstall log is rewritten only after the staging directory is gone.
C35_LegacyStepsInOrder ==
    Legacy =>
        /\ Len(steps) <= Len(LegacyOrder)
        /\ \A i \in DOMAIN steps : steps[i] = LegacyOrder[i]
        /\ Started("promote") =>
              /\ dres = "Ok"
              /\ \A i \in DOMAIN handles : handles[i].st = "Closed"
              /\ HandlePaths = FilesToDelete
              /\ rmdirs = <<>>
              /\ dirs \cap TargetDirs("delete_existing_version",
                                      InitialDirs(pre), commit) = {}
              /\ \A p \in FilesToDelete :
                    exists(fs, p) =>
                        /\ p.dir = "root"
                        /\ exists(pre, StagedTwin(p))
                        /\ ~exists(fs, StagedTwin(p))
                        /\ fs[p] = pre[StagedTwin(p)]
        /\ Started("remove_staging") =>
              /\ staged = <<>>
              /\ \A e \in Files(pre, UpdateFolder) :
                    fs[Path("root", e.prefix, e.base)] = pre[e]
        /\ Started("patch_uninstdat") =>
              /\ pc = "done"
              /\ UpdateFolder \notin dirs
              /\ Files(fs, UpdateFolder) = {}

C35_Witness ==
    /\ pc = "done"
    /\ Legacy
    /\ result = "Ok"
    /\ Started("patch_uninstdat")
    /\ Cardinality(FilesToDelete) > 1
    /\ Files(pre, UpdateFolder) # {}

\* C36: when the staging folder does not exist or is not a directory, the
\* legacy strategy's move_update returns an error before any handle is
\* acquired: delete_existing_version is not started and the install root
\* is exactly as it was before the call.
C36_NoStagingFolderNothingDeleted ==
    (Legacy /\ Started("move_update") /\ UpdateFolder \notin InitialDirs(pre)) =>
        /\ pc = "done"
        /\ result \in {"ErrUpdateFolder", "ErrUpdateFolderNotDir"}
        /\ ~Started("delete_existing_version")
        /\ handles = <<>>
        /\ fs = pre
        /\ dirs = InitialDirs(pre)

C36_Witness ==
    /\ pc = "done"
    /\ result = "ErrUpdateFolder"
    /\ Started("move_update")
    /\ ~exists(pre, UpdateFolderFile)
    /\ exists(pre, BinFile("code.cmd"))

-----------------------------------------------------------------------------
(* model/filerec.rs: FileRec::rebase.  A path is the sequence of its chars;
   std::path splits it as on Windows.  The paths enumerated below have a
   drive-letter prefix ("C:") or none: UNC and verbatim prefixes are not
   modelled. *)

Backslash == 92

\* std::path::is_separator on Windows: '\' and '/'
IsSep(c) == c = Backslash \/ c = 47

\* The length of a drive prefix such as "C:"
prefix_len(p) ==
    IF Len(p) >= 2 /\ p[2] = 58
         /\ ((p[1] >= 65 /\ p[1] <= 90) \/ (p[1] >= 97 /\ p[1] <= 122))
    THEN 2 ELSE 0

has_root(p) == Len(p) > prefix_len(p) /\ IsSep(p[prefix_len(p) + 1])

\* Components::len_before_body: the prefix and the root separator
len_before_body(p) == prefix_len(p) + (IF has_root(p) THEN 1 ELSE 0)

\* The end of the run of non-separators that starts at i
comp_end(p, i) ==
    CHOOSE j \in i..Len(p) :
        /\ \A k \in i..j : ~IsSep(p[k])
        /\ j = Len(p) \/ IsSep(p[j + 1])

\* Where the Normal components of the body start: empty components and
\* "." components are skipped by Components::next
comp_starts(p) ==
    {i \in (len_before_body(p) + 1)..Len(p) :
        /\ ~IsSep(p[i])
        /\ i = len_before_body(p) + 1 \/ IsSep(p[i - 1])
        /\ ~(p[i] = 46 /\ comp_end(p, i) = i)}

\* Path::components: the prefix, the root and the body's components, each
\* with the place it starts at.
components(p) ==
    [prefix |-> SubSeq(p, 1, prefix_len(p)),
     root |-> has_root(p),
     body |-> [n \in 1..Cardinality(comp_starts(p)) |->
                 LET i == CHOOSE s \in comp_starts(p) :
                            Cardinality({t \in comp_starts(p) : t < s}) = n - 1
                 IN  [at |-> i, name |-> SubSeq(p, i, comp_end(p, i))]]]

\* str::starts_with
StartsWith(p, b) == Len(b) <= Len(p) /\ SubSeq(p, 1, Len(b)) = b

SamePrefix_chars(own, base) ==
    /\ own.prefix = base.prefix
    /\ own.root = base.root
    /\ Len(base.body) <= Len(own.body)
    /\ \A n \in DOMAIN base.body :
          IF n < Len(base.body)
          THEN own.body[n].name = base.body[n].name
          ELSE StartsWith(own.body[n].name, base.body[n].name)

\* What Path::strip_prefix compares component by component
SamePrefix(own, base) ==
    /\ own.prefix = base.prefix
    /\ own.root = base.root
    /\ Len(base.body) <= Len(own.body)
    /\ \A n \in DOMAIN base.body : own.body[n].name = base.body[n].name

\* Path::strip_prefix(base): the components of base are matched one by
\* one; what is left is the path from its next component on, without
\* trailing separators (Components::as_path).
strip_prefix_of(p, own, base) ==
    IF ~SamePrefix(own, base) THEN Err("StripPrefixError")
    ELSE IF Len(own.body) = Len(base.body) THEN Ok(<<>>)
    ELSE Ok(SubSeq(p, own.body[Len(base.body) + 1].at,
                   comp_end(p, own.body[Len(own.body)].at)))

strip_prefix(p, base) == strip_prefix_of(p, components(p), components(base))

\* Path::parent: the path without its last component and the separators
\* before it; None when the body has no component.
parent_of(p, own) ==
    IF Len(own.body) = 0 THEN None
    ELSE IF Len(own.body) = 1 THEN Some(SubSeq(p, 1, len_before_body(p)))
    ELSE Some(SubSeq(p, 1, comp_end(p, own.body[Len(own.body) - 1].at)))

parent(p) == parent_of(p, components(p))

\* PathBuf::join with a relative path: a separator is added unless the
\* buffer is empty, ends with one, or is a bare drive ("C:").
join(buf, path) ==
    IF buf = <<>> \/ IsSep(buf[Len(buf)])
         \/ (prefix_len(buf) > 0 /\ prefix_len(buf) = Len(buf))
    THEN buf \o path
    ELSE buf \o <<Backslash>> \o path

\* filerec.rs:314-321: remove trailing backslash
strip_trailing_backslash(s) ==
    IF s # <<>> /\ s[Len(s)] = Backslash THEN SubSeq(s, 1, Len(s) - 1) ELSE s

\* filerec.rs:305-323: one path of the record; a path that strip_prefix
\* rejects stays as it is (unwrap_or(original))
rebase_path(original, from, to) ==
    LET p == strip_prefix(original, from)
    IN  IF p.res # "Ok" THEN original
        ELSE strip_trailing_backslash(join(to, p.val))

\* filerec.rs:297-330: the paths have been decoded
rebase_paths(rec, paths, from, to) ==
    IF paths.res # "Ok" THEN paths
    ELSE IF ~to.some THEN Err("RebaseError")
    ELSE Ok([typ |-> rec.typ,
             extra_data |-> rec.extra_data,
             data |-> encode_strings(
                 [k \in DOMAIN paths.val |->
                     rebase_path(paths.val[k], from, to.n)])])

\* filerec.rs:294-331: FileRec::rebase
rebase(rec, update_path) ==
    rebase_paths(rec, decode_strings(rec.data), update_path, parent(update_path))

-----------------------------------------------------------------------------
(* SpecRebase: rebase is applied to one DeleteDirOrFiles or DeleteFile
   record, for the update folder written without and with a trailing
   separator *)

\* "C:\Code\_": the update folder of the unit test (filerec.rs:387)
StagingDir ==
    <<67, 58, 92, 67, 111, 100, 101, 92, 95>>

\* "C:\Code\foo.txt": outside the update folder
FooTxt ==
    <<67, 58, 92, 67, 111, 100, 101, 92, 102, 111, 111, 46, 116, 120, 116>>

\* "C:\Code\_\bar.txt": in the update folder
StagedBarTxt ==
    <<67, 58, 92, 67, 111, 100, 101, 92, 95, 92, 98, 97, 114, 46, 116, 120, 116>>

\* "C:\Code\_\foo\bar.txt": in a folder of the update folder
StagedFooBarTxt ==
    <<67, 58, 92, 67, 111, 100, 101, 92, 95, 92, 102, 111, 111, 92, 98, 97, 114, 46, 116, 120, 116>>

\* "C:\Code\_foo\bar.txt": in a sibling folder whose name starts like the update folder's
SiblingBarTxt ==
    <<67, 58, 92, 67, 111, 100, 101, 92, 95, 102, 111, 111, 92, 98, 97, 114, 46, 116, 120, 116>>

\* "C:\Code\_\": the update folder itself, written with a trailing separator
StagingDirSep ==
    <<67, 58, 92, 67, 111, 100, 101, 92, 95, 92>>

\* "D:\Code\_\é": on another drive
OtherDriveTxt ==
    <<68, 58, 92, 67, 111, 100, 101, 92, 95, 92, 233>>

RebaseSamplePaths ==
    {FooTxt, StagedBarTxt, StagedFooBarTxt, StagingDir, SiblingBarTxt,
     StagingDirSep, OtherDriveTxt}

StagingDirs == {StagingDir, StagingDirSep}

PathLists == UNION {[1..n -> RebaseSamplePaths] : n \in 0..MaxStrings}

DeleteDirOrFiles == 129
DeleteFile == 130

\* Payloads decode_strings does not take: an empty one, one that ends
\* before its terminator, one with a wrong string header, and one whose
\* string has an odd size
BadPayloads ==
    {<<>>,
     SubSeq(encode_strings(<<StagedBarTxt>>), 1, 20),
     <<0>> \o encode_strings(<<StagedBarTxt>>),
     <<254>> \o write_i32(-3) \o <<95, 0, 92>> \o <<255>>}

RebaseRecords ==
    {[typ |-> t, extra_data |-> e, data |-> encode_strings(xs)] :
        t \in {DeleteDirOrFiles, DeleteFile}, e \in {U32(0, 0), U32(1, 5)},
        xs \in PathLists}
      \cup {[typ |-> DeleteFile, extra_data |-> U32(0, 0), data |-> d] :
              d \in BadPayloads}

InitRebase ==
    /\ InstallIdle /\ RetryIdle /\ ProcIdle /\ BlockIdle
    /\ \E rec \in RebaseRecords, dir \in StagingDirs :
         value = [kind |-> "rebase", rec |-> rec, dir |-> dir]
    /\ bytes = <<>>
    /\ fault = NoFault
    /\ decoded = NotDecoded
    /\ pc = "reb_call"

\* rec.rebase(&update_path)
Rebase ==
    /\ pc = "reb_call"
    /\ decoded' = rebase(value.rec, value.dir)
    /\ pc' = "rebased"
    /\ UNCHANGED <<value, bytes, fault, bw, br>>
    /\ UNCHANGED <<installVars, retVars, procVars>>

NextRebase == Rebase

SpecRebase == InitRebase /\ [][NextRebase]_vars

\* The paths of the record handed to rebase, and those of its result
PathsBefore == decode_strings(value.rec.data)
PathsAfter == decode_strings(decoded.val.data)

\* staging_dir replaced by its parent directory at the front of p, then
\* one trailing separator stripped
ParentForStaging(p) ==
    strip_trailing_backslash(
        SubSeq(StagingDir, 1, Len(StagingDir) - 2)
          \o SubSeq(p, Len(StagingDir) + 1, Len(p)))

\* The other spelling of the update folder handed to rebase
OtherSpelling ==
    IF value.dir = StagingDir THEN StagingDirSep ELSE StagingDir

\* C31 (as claimed): rebase keeps the record's discriminant, its extra-data
\* and the number and order of its paths, replaces staging_dir by its
\* parent directory in every path that has staging_dir as a string prefix
\* (then strips one trailing separator), leaves every other path unchanged,
\* and gives the same result for staging_dir with a trailing separator.
C31_RebaseStringPrefix ==
    (pc = "rebased" /\ PathsBefore.res = "Ok") =>
        /\ decoded.res = "Ok"
        /\ decoded.val.typ = value.rec.typ
        /\ decoded.val.extra_data = value.rec.extra_data
        /\ PathsAfter.res = "Ok"
        /\ Len(PathsAfter.val) = Len(PathsBefore.val)
        /\ \A k \in DOMAIN PathsBefore.val :
              PathsAfter.val[k] =
                  IF StartsWith(PathsBefore.val[k], StagingDir)
                  THEN ParentForStaging(PathsBefore.val[k])
                  ELSE PathsBefore.val[k]
        /\ decoded = rebase(value.rec, OtherSpelling)

\* staging_dir is a prefix of p by whole components: p is staging_dir or
\* goes on with a separator
InStaging(p) == p = StagingDir \/ StartsWith(p, StagingDirSep)

\* C31 (amended): as claimed, except that a path is rebased when
\* staging_dir is a prefix of it by whole path components, not by
\* characters: a path in a sibling folder whose name merely starts like
\* staging_dir's stays unchanged.
C31_RebaseComponentPrefix ==
    (pc = "rebased" /\ PathsBefore.res = "Ok") =>
        /\ decoded.res = "Ok"
        /\ decoded.val.typ = value.rec.typ
        /\ decoded.val.extra_data = value.rec.extra_data
        /\ PathsAfter.res = "Ok"
        /\ Len(PathsAfter.val) = Len(PathsBefore.val)
        /\ \A k \in DOMAIN PathsBefore.val :
              PathsAfter.val[k] =
                  IF InStaging(PathsBefore.val[k])
                  THEN ParentForStaging(PathsBefore.val[k])
                  ELSE PathsBefore.val[k]
        /\ decoded = rebase(value.rec, OtherSpelling)

\* C31's case: a record of a path in the update folder and a path in the
\* sibling folder, the update folder written with a trailing separator
C31_Witness ==
    /\ pc = "rebased"
    /\ value.dir = StagingDirSep
    /\ PathsBefore = Ok(<<StagedFooBarTxt, SiblingBarTxt>>)
    /\ decoded.res = "Ok"

\* C32 (as claimed): rebase never fails the whole record: for every
\* DeleteDirOrFiles or DeleteFile record, whatever its payload, rebase
\* returns a record, and a payload that cannot be decoded stays as it is.
C32_RebaseNeverFails ==
    pc = "rebased" =>
        /\ decoded.res = "Ok"
        /\ PathsBefore.res # "Ok" => decoded.val.data = value.rec.data

-----------------------------------------------------------------------------
(* main.rs: patch_uninstdat and write_file, on the bytes of the log *)

\* main.rs:291: DeleteDirOrFiles | DeleteFile
IsPathRec(rec) == rec.typ \in {DeleteDirOrFiles, DeleteFile}

\* main.rs:288-296: recs.iter().map(..).collect::<Result<Vec<_>, _>>()?
RECURSIVE rebase_recs(_, _, _)

\* the closure having returned `rec` for the first of `recs`
collect_rebased(rec, recs, update_path, out) ==
    IF rec.res = "Ok"
    THEN rebase_recs(Tail(recs), update_path, Append(out, rec.val))
    ELSE rec

rebase_recs(recs, update_path, out) ==
    IF recs = <<>> THEN Ok(out)
    ELSE collect_rebased(IF IsPathRec(Head(recs))
                         THEN rebase(Head(recs), update_path)
                         ELSE Ok(Head(recs)),
                         recs, update_path, out)

\* filerec.rs:333-335: FileRec::get_paths
get_paths(rec) == decode_strings(rec.data)

IsSinglePath_nonEmpty(paths) == Len(paths) >= 1

\* main.rs:311: if paths.len() != 1 { return true }
IsSinglePath(paths) == Len(paths) = 1

\* main.rs:301-327: recs.into_iter().filter(..).collect(), `set` holding
\* the single paths seen and `out` the records kept so far
RECURSIVE dedup(_, _, _)

\* main.rs:309-325: match rec.get_paths(), which returned `paths`
filter_rec(rec, paths, rest, set, out) ==
    IF paths.res = "Panic" THEN Panic
    ELSE IF paths.res = "Err" THEN dedup(rest, set, out)
    ELSE IF ~IsSinglePath(paths.val) THEN dedup(rest, set, Append(out, rec))
    ELSE IF paths.val[1] \in set THEN dedup(rest, set, out)
    ELSE dedup(rest, set \cup {paths.val[1]}, Append(out, rec))

dedup(recs, set, out) ==
    IF recs = <<>> THEN Ok(out)
    ELSE IF ~IsPathRec(Head(recs))
    THEN dedup(Tail(recs), set, Append(out, Head(recs)))
    ELSE filter_rec(Head(recs), get_paths(Head(recs)), Tail(recs), set, out)

\* Header::clone_with_num_recs: the header with its record count replaced
clone_with_num_recs(header, num_recs) == [header EXCEPT !.num_recs = num_recs]

\* main.rs:69-71: for rec in recs { rec.to_writer(&mut writer)? }
RECURSIVE write_recs(_, _)
write_recs(st, recs) ==
    IF recs = <<>> THEN st
    ELSE write_recs(BlockWrite_write(st, FileRec_to_writer(Head(recs))),
                    Tail(recs))

stream_position_ofStream(stream) == Len(stream)

\* main.rs:62 and 79: the file was sought to 448 before the blocks were
\* written; stream_position() is where they end
stream_position(stream) == HEADER_SIZE + Len(stream)

\* main.rs:83-88: the header is written over the 448 bytes skipped
write_header(header, stream) ==
    IF header.res = "Ok" THEN Ok(header.val \o stream)
    ELSE Panic @@ [val |-> Zeros(HEADER_SIZE) \o stream]

\* main.rs:76-88: the blocks are on disk; end_offset = stream_position as u32
write_file_after(header, stream) ==
    write_header(
        Header_to_writer([header EXCEPT
                            !.end_offset = to_u32(stream_position(stream))]),
        stream)

\* main.rs:55-91: write_file when no write fails: the bytes of the file
write_file(header, recs) ==
    write_file_after(header,
        BlockWrite_flush(write_recs(BlockWrite_new, recs)).writer)

File_open_create(file) == <<>>

\* main.rs:41: fs::File::open(path) opens for reading and leaves the file
\* as it is
File_open(file) == file

-----------------------------------------------------------------------------
(* SpecPatch: patch_uninstdat on a log that Inno Setup wrote, intact or
   damaged *)

MaxRecs == 2

\* "C:\Code\bar.txt": where the staged bar.txt goes
BarTxt ==
    <<67, 58, 92, 67, 111, 100, 101, 92, 98, 97, 114, 46, 116, 120, 116>>

PathRec(typ, paths) ==
    [typ |-> typ, extra_data |-> U32(0, 0), data |-> encode_strings(paths)]

\* A Run record: its payload is not looked at
RunRec == [typ |-> 128, extra_data |-> U32(0, 7), data |-> <<1, 2, 3>>]

\* A record that does not fit one block
BigRec == [typ |-> 1, extra_data |-> U32(0, 0),
           data |-> Filled(BLOCK_MAX_SIZE + 4, 7)]

RecPool ==
    {RunRec,
     PathRec(DeleteFile, <<StagedBarTxt>>),
     PathRec(DeleteDirOrFiles, <<BarTxt>>),
     PathRec(DeleteFile, <<FooTxt>>),
     PathRec(DeleteDirOrFiles, <<BarTxt, FooTxt>>),
     PathRec(DeleteFile, <<>>),
     [typ |-> DeleteFile, extra_data |-> U32(0, 0), data |-> <<0>>]}

\* A log in which a path comes four times, once in a record of two paths,
\* and which takes two blocks
LongLog ==
    <<PathRec(DeleteFile, <<StagedBarTxt>>),
      PathRec(DeleteDirOrFiles, <<BarTxt, FooTxt>>),
      RunRec,
      BigRec,
      PathRec(DeleteDirOrFiles, <<BarTxt>>),
      PathRec(DeleteFile, <<>>),
      PathRec(DeleteFile, <<StagingDir>>),
      PathRec(DeleteFile, <<StagedBarTxt>>)>>

Logs ==
    UNION {[1..n -> RecPool] : n \in 0..MaxRecs}
      \cup {LongLog, <<BigRec, PathRec(DeleteFile, <<StagedBarTxt>>)>>,
            <<BigRec, RunRec, BigRec>>}

LogHeader(num_recs) ==
    NewHeader(HEADER_ID_64, SampleAppId, SampleAppName, 47, num_recs,
              U32(0, 0), U32(0, 33))

\* What can have become of the log's bytes: the header cut, a bit of the
\* header flipped, the last byte of the block stream lost
LogFaults == {"short_header", "header_bit", "short_stream"}

DamagedLog(b, f) ==
    CASE f = "short_header" -> SubSeq(b, 1, HEADER_SIZE - 1)
      [] f = "header_bit" -> FlipBit(b, 600)
      [] OTHER -> SubSeq(b, 1, Len(b) - 1)

PatchState(res, stage, file, header, read, rebased, kept) ==
    [res |-> res, stage |-> stage, file |-> file, header |-> header,
     read |-> read, rebased |-> rebased, kept |-> kept]

InitPatch ==
    /\ InstallIdle /\ RetryIdle /\ ProcIdle /\ BlockIdle
    /\ \E recs \in Logs, dir \in StagingDirs :
         /\ value = [kind |-> "log", recs |-> recs, dir |-> dir]
         /\ bytes = write_file(LogHeader(Len(recs)), recs).val
    /\ fault = NoFault
    /\ decoded = NotDecoded
    /\ pc = "log_written"

DamageLog ==
    /\ pc = "log_written"
    /\ \E f \in LogFaults :
         /\ fault' = [kind |-> f]
         /\ bytes' = DamagedLog(bytes, f)
    /\ pc' = "log_damaged"
    /\ UNCHANGED <<value, decoded, bw, br>>
    /\ UNCHANGED <<installVars, retVars, procVars>>

\* main.rs:283: let (header, recs) = read_file(uninstdat_path)?
ReadLogReturns(file, r) ==
    IF r.res = "Ok"
    THEN /\ decoded' = PatchState("none", "read", file, r.val.header,
                                  r.val.recs, <<>>, <<>>)
         /\ pc' = "patch_rebase"
    ELSE /\ decoded' = PatchState(r.res, "read", file, NoValue, <<>>, <<>>, <<>>)
         /\ pc' = "patch_returned"

ReadLog ==
    /\ pc \in {"log_written", "log_damaged"}
    /\ bytes' = File_open(bytes)
    /\ ReadLogReturns(bytes, read_file(bytes))
    /\ UNCHANGED <<value, fault, bw, br>>
    /\ UNCHANGED <<installVars, retVars, procVars>>

\* main.rs:288-296: the records are rebased, or the first error is returned
RebaseRecsReturns(r) ==
    IF r.res = "Ok"
    THEN /\ decoded' = [decoded EXCEPT !.stage = "rebase", !.rebased = r.val]
         /\ pc' = "patch_dedup"
    ELSE /\ decoded' = [decoded EXCEPT !.stage = "rebase", !.res = r.res]
         /\ pc' = "patch_returned"

RebaseRecs ==
    /\ pc = "patch_rebase"
    /\ RebaseRecsReturns(rebase_recs(decoded.read, value.dir, <<>>))
    /\ UNCHANGED <<value, bytes, fault, bw, br>>
    /\ UNCHANGED <<installVars, retVars, procVars>>

\* main.rs:298-327: the duplicates are removed
DedupRecsReturns(r) ==
    IF r.res = "Ok"
    THEN /\ decoded' = [decoded EXCEPT !.stage = "dedup", !.kept = r.val]
         /\ pc' = "patch_write"
    ELSE /\ decoded' = [decoded EXCEPT !.stage = "dedup", !.res = r.res]
         /\ pc' = "patch_returned"

DedupRecs ==
    /\ pc = "patch_dedup"
    /\ DedupRecsReturns(dedup(decoded.rebased, {}, <<>>))
    /\ UNCHANGED <<value, bytes, fault, bw, br>>
    /\ UNCHANGED <<installVars, retVars, procVars>>

\* main.rs:329-335: the header takes the new record count and write_file
\* writes the log; File::create can fail, and so can a write after it,
\* the file then being empty
WriteLogReturns(r, io) ==
    /\ bytes' = CASE io = "create_failed" -> bytes
                  [] io = "write_failed" -> <<>>
                  [] OTHER -> r.val
    /\ decoded' = [decoded EXCEPT
                     !.stage = "write",
                     !.res = IF io = "ok" THEN r.res ELSE "Err"]
    /\ pc' = "patch_returned"

WriteLog ==
    /\ pc = "patch_write"
    /\ \E io \in {"ok", "create_failed", "write_failed"} :
         WriteLogReturns(
             write_file(clone_with_num_recs(decoded.header, Len(decoded.kept)),
                        decoded.kept),
             io)
    /\ UNCHANGED <<value, fault, bw, br>>
    /\ UNCHANGED <<installVars, retVars, procVars>>

NextPatch == DamageLog \/ ReadLog \/ RebaseRecs \/ DedupRecs \/ WriteLog

SpecPatch == InitPatch /\ [][NextPatch]_vars

\* The record has exactly one path.
IsSingle(rec) ==
    IsPathRec(rec) /\ get_paths(rec).res = "Ok" /\ Len(get_paths(rec).val) = 1

\* Whether the dedup pass has to keep the i-th record of recs
Keeps(recs, i) ==
    IF ~IsPathRec(recs[i]) THEN TRUE
    ELSE IF get_paths(recs[i]).res # "Ok" THEN FALSE
    ELSE IF ~IsSingle(recs[i]) THEN TRUE
    ELSE \A j \in 1..(i - 1) :
            ~(IsSingle(recs[j]) /\ get_paths(recs[j]).val = get_paths(recs[i]).val)

KeptIndexes(recs) == {i \in DOMAIN recs : Keeps(recs, i)}

\* The records of recs at the indexes in S, in their order
Subsequence(recs, S) ==
    [n \in 1..Cardinality(S) |->
        recs[CHOOSE x \in S : Cardinality({t \in S : t < x}) = n - 1]]

Deduplicated == pc = "patch_write" \/ (pc = "patch_returned" /\ decoded.stage = "write")

\* C33: the dedup pass of patch_uninstdat outputs a subsequence of its
\* input in the same order: a DeleteDirOrFiles or DeleteFile record with
\* exactly one path is kept if and only if no earlier single-path record of
\* either of those two types has the same path string; such a record whose
\* paths fail to decode is dropped; a record with zero or several paths is
\* always kept; every record of another type is kept unchanged.
C33_DedupKeepsFirstOfEachSinglePath ==
    Deduplicated =>
        decoded.kept = Subsequence(decoded.rebased, KeptIndexes(decoded.rebased))

\* C33's case: of four records with the path C:\Code\bar.txt after
\* rebase, the two later single-path ones are dropped, the one with two
\* paths and the one with no path are kept.
C33_Witness ==
    /\ pc = "patch_write"
    /\ value.recs = LongLog
    /\ Len(decoded.rebased) = 8
    /\ KeptIndexes(decoded.rebased) = {1, 2, 3, 4, 6, 7}

RECURSIVE RecordBytes(_)
RecordBytes(recs) ==
    IF recs = <<>> THEN 0
    ELSE 10 + Len(Head(recs).data) + RecordBytes(Tail(recs))

BlocksFor(n) == (n + BLOCK_MAX_SIZE - 1) \div BLOCK_MAX_SIZE

\* Each record of the log as patch_uninstdat has to leave it, before dedup
RebasedLog ==
    [i \in DOMAIN value.recs |->
        IF IsPathRec(value.recs[i])
        THEN rebase(value.recs[i], value.dir).val
        ELSE value.recs[i]]

PatchSucceeded ==
    pc = "patch_returned" /\ decoded.stage = "write" /\ decoded.res = "Ok"

\* What C34 says of the log read again, `r` being read_file's result
RereadAsPatched(r) ==
    /\ r.res = "Ok"
    /\ r.val.header.num_recs =
          Len(value.recs)
            - Cardinality(DOMAIN RebasedLog \ KeptIndexes(RebasedLog))
    /\ r.val.header.num_recs = Len(r.val.recs)
    /\ to_usize(r.val.header.end_offset) = Len(bytes)
    /\ Len(bytes) = HEADER_SIZE + RecordBytes(r.val.recs)
                      + 12 * BlocksFor(RecordBytes(r.val.recs))
    /\ r.val.recs = Subsequence(RebasedLog, KeptIndexes(RebasedLog))
    /\ \A f \in {"id", "app_id", "app_name", "version", "flags"} :
          r.val.header[f] = LogHeader(0)[f]

\* C34: after patch_uninstdat succeeds on a log of N records, reading the
\* rewritten file again gives a valid header whose num_recs is N minus the
\* number of removed duplicates and is the number of records in the block
\* stream, whose end_offset is the file's length (448 + the records' bytes
\* + 12 per block written), and the records are the rebased, deduplicated
\* records in order.
C34_PatchedLogReadsBack ==
    PatchSucceeded => RereadAsPatched(read_file(bytes))

\* C34's case: the log of eight records in two blocks, two of them removed
C34_Witness ==
    /\ PatchSucceeded
    /\ value.recs = LongLog
    /\ read_file(bytes).val.header.num_recs = 6
    /\ Len(bytes) > HEADER_SIZE + BLOCK_MAX_SIZE + 24

\* C40: patch_uninstdat opens the log for writing only after the header and
\* every record were decoded and every record rebased and deduplicated:
\* until then, and when decoding or rebasing returned an error, the file
\* has the bytes it had when patch_uninstdat was called.
C40_LogUntouchedBeforeWrite ==
    (\/ pc \in {"patch_rebase", "patch_dedup", "patch_write"}
     \/ pc = "patch_returned" /\ decoded.stage \in {"read", "rebase", "dedup"}) =>
        bytes = decoded.file

\* C40's case: the second record of an intact log fails to rebase
C40_Witness ==
    /\ pc = "patch_returned"
    /\ decoded.stage = "rebase"
    /\ decoded.res = "Err"
    /\ fault = NoFault
    /\ Len(value.recs) = 2
    /\ IsSingle(value.recs[1])
    /\ bytes # <<>>

=============================================================================
